---------------------------- MODULE Spec2Model ----------------------------
(***************************************************************************)
(* Paper-trading engine of kalshi-trader: signal detection, fractional     *)
(* Kelly sizing, the trade ledger (paper_trades) and bankroll accounting.  *)
(*                                                                         *)
(* Numbers.  Prices, probabilities and confidences are decimal fractions   *)
(* of 1 and are held in ten-thousandths: 4000 is 0.40.  Money is held in   *)
(* ten-thousandths of a dollar: 40000 is $4.00, 100 is one cent.  Where the *)
(* code divides (Kelly odds, profit percent) the value is an exact         *)
(* rational <<n, d>> in lowest terms.  Math.round and Math.floor are       *)
(* modelled by what they do on these exact values; binary floating-point   *)
(* representation error is not modelled.                                   *)
(***************************************************************************)
EXTENDS Integers, Naturals, Sequences, FiniteSets, TLC

(***************************************************************************)
(* Bounds of the model.                                                    *)
(***************************************************************************)
MaxTrades == 2
MaxSignals == 2
MaxEstimates == 2
MaxSnapshots == 2
MaxClock == 3

Scale == 10000

NULL == "null"

(***************************************************************************)
(* Exact rational arithmetic.                                              *)
(***************************************************************************)
Abs(x) == IF x < 0 THEN -x ELSE x

RECURSIVE GCD(_, _)
GCD(a, b) == IF b = 0 THEN a ELSE GCD(b, a % b)

Q(n, d) ==
  LET s == IF d < 0 THEN -1 ELSE 1
      g == GCD(Abs(n), Abs(d))
  IN  IF n = 0 THEN <<0, 1>> ELSE <<(s * n) \div g, (s * d) \div g>>

QInt(n) == <<n, 1>>
QAdd(a, b) == Q(a[1] * b[2] + b[1] * a[2], a[2] * b[2])
QSub(a, b) == Q(a[1] * b[2] - b[1] * a[2], a[2] * b[2])
QMul(a, b) == Q(a[1] * b[1], a[2] * b[2])
QDiv(a, b) == QMul(a, Q(b[2], b[1]))
QLe(a, b) == a[1] * b[2] <= b[1] * a[2]
QLt(a, b) == a[1] * b[2] < b[1] * a[2]
\* mutant: the smaller of two is always the first (no cap is applied)
QMin_First(a, b) == a

QMin(a, b) == IF QLe(a, b) THEN a ELSE b
\* Math.floor
QFloor(a) == a[1] \div a[2]
\* Math.round(x): the nearest integer, a half rounding up
QRound(a) == QFloor(QAdd(a, <<1, 2>>))
\* Math.round(x * k) / k
RoundTo(a, k) == Q(QRound(QMul(a, QInt(k))), k)

FromFixed(m) == Q(m, Scale)
\* the value of a rational that lies on the fixed-point grid
ToFixed(a) == QFloor(QMul(a, QInt(Scale)))
RoundCents(m) == ToFixed(RoundTo(FromFixed(m), 100))

(***************************************************************************)
(* Optional values (SQL NULL, JS null): <<>> is absent, <<v>> is v.        *)
(***************************************************************************)
None == <<>>
Some(v) == <<v>>

(***************************************************************************)
(* Position sizer (position-sizer.js).                                     *)
(***************************************************************************)
\* mutant: the test of modelProb is left out
kellyFraction_NoProbCheck(modelProb, entryPrice) ==
  IF entryPrice <= 0 \/ entryPrice >= Scale THEN QInt(0)
  ELSE LET cost == FromFixed(entryPrice)
           b == QDiv(QSub(QInt(1), cost), cost)
           p == FromFixed(modelProb)
           q == QSub(QInt(1), p)
       IN  QDiv(QSub(QMul(p, b), q), b)

\* kellyFraction(modelProb, entryPrice); both arguments in ten-thousandths
kellyFraction(modelProb, entryPrice) ==
  IF entryPrice <= 0 \/ entryPrice >= Scale THEN QInt(0)
  ELSE IF modelProb <= 0 \/ modelProb >= Scale THEN QInt(0)
  ELSE LET payout == QInt(1)
           cost == FromFixed(entryPrice)
           b == QDiv(QSub(payout, cost), cost)
           p == FromFixed(modelProb)
           q == QSub(QInt(1), p)
           f == QDiv(QSub(QMul(p, b), q), b)
       IN  f

\* mutant: the test of contracts <= 0 is left out
sizePosition_NoContractsTest(modelProb, entryPrice, bankroll, kellyMultiplier, maxPositionPct) ==
  LET kellyFull == kellyFraction(modelProb, entryPrice)
      kellyAdjusted == QMul(kellyFull, kellyMultiplier)
      fraction == QMin(kellyAdjusted, Q(maxPositionPct, 100))
      dollarAmount == QMul(FromFixed(bankroll), fraction)
      contracts == QFloor(QDiv(dollarAmount, FromFixed(entryPrice)))
      costBasis == QMul(QInt(contracts), FromFixed(entryPrice))
  IN  IF QLe(kellyFull, QInt(0))
      THEN [contracts |-> 0, costBasis |-> 0, kellyFull |-> kellyFull,
            kellyAdjusted |-> QInt(0), fraction |-> QInt(0)]
      ELSE [contracts |-> contracts,
            costBasis |-> ToFixed(RoundTo(costBasis, 100)),
            kellyFull |-> RoundTo(kellyFull, 10000),
            kellyAdjusted |-> RoundTo(kellyAdjusted, 10000),
            fraction |-> RoundTo(fraction, 10000)]

\* sizePosition({ modelProb, entryPrice, bankroll, kellyMultiplier, maxPositionPct })
\* modelProb, entryPrice, bankroll in ten-thousandths; kellyMultiplier a rational;
\* maxPositionPct a whole percentage
sizePosition(modelProb, entryPrice, bankroll, kellyMultiplier, maxPositionPct) ==
  LET kellyFull == kellyFraction(modelProb, entryPrice)
      kellyAdjusted == QMul(kellyFull, kellyMultiplier)
      maxFraction == Q(maxPositionPct, 100)
      fraction == QMin(kellyAdjusted, maxFraction)
      dollarAmount == QMul(FromFixed(bankroll), fraction)
      contracts == QFloor(QDiv(dollarAmount, FromFixed(entryPrice)))
      costBasis == QMul(QInt(contracts), FromFixed(entryPrice))
  IN  IF QLe(kellyFull, QInt(0))
      THEN [contracts |-> 0, costBasis |-> 0, kellyFull |-> kellyFull,
            kellyAdjusted |-> QInt(0), fraction |-> QInt(0)]
      ELSE IF contracts <= 0
      THEN [contracts |-> 0, costBasis |-> 0, kellyFull |-> kellyFull,
            kellyAdjusted |-> kellyAdjusted, fraction |-> fraction]
      ELSE [contracts |-> contracts,
            costBasis |-> ToFixed(RoundTo(costBasis, 100)),
            kellyFull |-> RoundTo(kellyFull, 10000),
            kellyAdjusted |-> RoundTo(kellyAdjusted, 10000),
            fraction |-> RoundTo(fraction, 10000)]

\* mutant: the NO side is priced like the YES side
sideEntryPrice_YesOnly(signal) == signal.marketPrice

\* entryPrice and modelProb of sizeFromSignal: the NO side flips both
sideEntryPrice(signal) ==
  IF signal.side = "yes" THEN signal.marketPrice ELSE Scale - signal.marketPrice

\* mutant: the NO side keeps the model's P(yes)
sideModelProb_YesOnly(signal) == signal.modelProb

sideModelProb(signal) ==
  IF signal.side = "yes" THEN signal.modelProb ELSE Scale - signal.modelProb

\* return { ...sizing, side, entryPrice }
sizedSignal(sizing, signal) ==
  [contracts |-> sizing.contracts, costBasis |-> sizing.costBasis,
   kellyFull |-> sizing.kellyFull, kellyAdjusted |-> sizing.kellyAdjusted,
   fraction |-> sizing.fraction, side |-> signal.side,
   entryPrice |-> RoundCents(sideEntryPrice(signal))]

\* sizeFromSignal(signal, { bankroll, kellyMultiplier, maxPositionPct })
sizeFromSignal(signal, bankroll, kellyMultiplier, maxPositionPct) ==
  sizedSignal(sizePosition(sideModelProb(signal), sideEntryPrice(signal),
                           bankroll, kellyMultiplier, maxPositionPct),
              signal)

(***************************************************************************)
(* State.                                                                  *)
(*   markets    the markets table: ticker -> row, or NoMarket              *)
(*   estimates  the model_estimates table, in insertion (rowid) order      *)
(*   trades     the paper_trades table; a trade's id is its position       *)
(*   lastOp     the last operation called, its arguments and what it       *)
(*              returned                                                   *)
(*   callers    the position of each concurrent caller of openTrade        *)
(*   snapshots  the price_snapshots table, in insertion (rowid) order      *)
(*   config     what loadConfig returned when the process started          *)
(*   timers     the poll and model cycles of main: where each cycle is     *)
(*              and whether its interval timer is set                      *)
(*   client     the Kalshi client's request in flight                      *)
(***************************************************************************)
VARIABLES markets, estimates, trades, lastOp, callers, snapshots, config, timers, client

vars == <<markets, estimates, trades, lastOp, callers, snapshots, config, timers, client>>

\* what the operations on the ledger leave alone
aside == <<snapshots, config, timers, client>>

\* no snapshot taken, no process started, no request made
AsideInit ==
  /\ snapshots = <<>>
  /\ config = NULL
  /\ timers = NULL
  /\ client = NULL

Tickers == {"T1", "T2"}
NoMarket == [present |-> FALSE, status |-> "", result |-> NULL,
             last_yes_price |-> None, category |-> NULL]

\* what an operation returned; a field an operation does not return keeps
\* its value here
NoRet == [status |-> "none", tradeId |-> 0, contracts |-> 0, costBasis |-> 0,
          side |-> "", profit |-> 0, profitPct |-> <<0, 1>>, opened |-> 0,
          skipped |-> 0, resolved |-> 0, wins |-> 0, losses |-> 0,
          totalProfit |-> 0]
RetNull == [NoRet EXCEPT !.status = "null"]
RetThrows == [NoRet EXCEPT !.status = "throws"]

Op(op, ticker, n, ret, log) ==
  [op |-> op, ticker |-> ticker, n |-> n, ret |-> ret, log |-> log]

RECURSIVE SumCostBasis(_, _)
\* SUM(cost_basis) over the rows of db whose id is in ids
SumCostBasis(db, ids) ==
  IF ids = {} THEN 0
  ELSE LET i == CHOOSE j \in ids : TRUE
       IN  db[i].cost_basis + SumCostBasis(db, ids \ {i})

RECURSIVE SumProfit(_, _)
\* SUM(profit) over the rows of db whose id is in ids; SUM skips NULL
SumProfit(db, ids) ==
  IF ids = {} THEN 0
  ELSE LET i == CHOOSE j \in ids : TRUE
           v == IF db[i].profit = None THEN 0 ELSE db[i].profit[1]
       IN  v + SumProfit(db, ids \ {i})

(***************************************************************************)
(* Paper trader (paper-trader.js).                                         *)
(***************************************************************************)
\* mutant: the existence check never finds a row
existingOpenTrade_Never(db, signal) == FALSE

\* mutant: the existence check also compares the side
existingOpenTrade_SameSide(db, signal) ==
  \E i \in 1..Len(db) : /\ db[i].ticker = signal.ticker
                        /\ db[i].side = signal.side
                        /\ db[i].resolution = "open"

\* mutant: the existence check drops AND resolution = 'open'
existingOpenTrade_AnyResolution(db, signal) ==
  \E i \in 1..Len(db) : db[i].ticker = signal.ticker

\* SELECT id FROM paper_trades WHERE ticker = ? AND resolution = 'open'
existingOpenTrade(db, signal) ==
  \E i \in 1..Len(db) : db[i].ticker = signal.ticker /\ db[i].resolution = "open"

\* the row the INSERT of openTrade writes
tradeRow(signal, sizing) ==
  [ticker |-> signal.ticker, side |-> sizing.side,
   entry_price |-> sizing.entryPrice, exit_price |-> None,
   contracts |-> sizing.contracts, cost_basis |-> sizing.costBasis,
   revenue |-> None, profit |-> None, profit_pct |-> None,
   model_edge |-> signal.edge, category |-> signal.category,
   resolution |-> "open"]

\* mutant: the test of sizing.contracts is left out
insertSized_NoContractsTest(db, mkts, signal, sizing) ==
  IF ~mkts[signal.ticker].present THEN [ret |-> RetThrows, db |-> db]
  ELSE [ret |-> [NoRet EXCEPT !.status = "ok", !.tradeId = Len(db) + 1,
                              !.contracts = sizing.contracts,
                              !.costBasis = sizing.costBasis,
                              !.side = sizing.side],
        db |-> Append(db, tradeRow(signal, sizing))]

\* openTrade from the test of sizing.contracts on
insertSized(db, mkts, signal, sizing) ==
  IF sizing.contracts <= 0 THEN [ret |-> RetNull, db |-> db]
  \* paper_trades.ticker REFERENCES markets(ticker), foreign_keys = ON
  ELSE IF ~mkts[signal.ticker].present THEN [ret |-> RetThrows, db |-> db]
  ELSE [ret |-> [NoRet EXCEPT !.status = "ok", !.tradeId = Len(db) + 1,
                              !.contracts = sizing.contracts,
                              !.costBasis = sizing.costBasis,
                              !.side = sizing.side],
        db |-> Append(db, tradeRow(signal, sizing))]

\* openTrade after its existence check: sizing, then the INSERT
openTradeInsert(db, mkts, signal, bankroll, kellyMultiplier, maxPositionPct) ==
  insertSized(db, mkts, signal,
              sizeFromSignal(signal, bankroll, kellyMultiplier, maxPositionPct))

\* openTrade(db, signal, { bankroll, kellyMultiplier, maxPositionPct })
openTrade(db, mkts, signal, bankroll, kellyMultiplier, maxPositionPct) ==
  IF existingOpenTrade(db, signal) THEN [ret |-> RetNull, db |-> db]
  ELSE openTradeInsert(db, mkts, signal, bankroll, kellyMultiplier,
                       maxPositionPct)

\* mutant: the ratio is not turned into a percentage
ProfitPct_Ratio(profit, cost_basis) ==
  IF cost_basis > 0 THEN Q(profit, cost_basis) ELSE QInt(0)

\* profit / cost_basis * 100, or 0 when cost_basis is not positive
ProfitPct(profit, cost_basis) ==
  IF cost_basis > 0 THEN QMul(Q(profit, cost_basis), QInt(100)) ELSE QInt(0)

\* mutant: the lookup drops AND resolution = 'open'
selectOpenTrade_AnyState(db, tradeId) == tradeId \in 1..Len(db)

\* SELECT * FROM paper_trades WHERE id = ? AND resolution = 'open'
selectOpenTrade(db, tradeId) ==
  tradeId \in 1..Len(db) /\ db[tradeId].resolution = "open"

\* closeTrade(db, tradeId, exitPrice)
closeTrade(db, tradeId, exitPrice) ==
  IF ~selectOpenTrade(db, tradeId)
  THEN [ret |-> RetNull, db |-> db]
  ELSE LET trade == db[tradeId]
           revenue == trade.contracts * exitPrice
           profit == revenue - trade.cost_basis
           profitPct == ProfitPct(profit, trade.cost_basis)
       IN  [ret |-> [NoRet EXCEPT !.status = "ok",
                                  !.profit = RoundCents(profit),
                                  !.profitPct = RoundTo(profitPct, 100)],
            db |-> [db EXCEPT ![tradeId] =
                      [trade EXCEPT !.exit_price = Some(exitPrice),
                                    !.revenue = Some(revenue),
                                    !.profit = Some(profit),
                                    !.profit_pct = Some(profitPct),
                                    !.resolution = "sold"]]]

\* mutant: realized profit is left out of available
calculateBankroll_NoPnl(db, startingBankroll) ==
  LET openCost ==
        SumCostBasis(db, {i \in 1..Len(db) : db[i].resolution = "open"})
      realizedPnl ==
        SumProfit(db, {i \in 1..Len(db) :
                         db[i].resolution \in {"win", "loss", "sold"}})
      available == startingBankroll - openCost
      totalValue == available + openCost
  IN  [available |-> RoundCents(available),
       invested |-> RoundCents(openCost),
       realizedPnl |-> RoundCents(realizedPnl),
       totalValue |-> RoundCents(totalValue)]

\* mutant: the cost of the open trades is not taken off available
calculateBankroll_NoOpenCost(db, startingBankroll) ==
  LET openCost ==
        SumCostBasis(db, {i \in 1..Len(db) : db[i].resolution = "open"})
      realizedPnl ==
        SumProfit(db, {i \in 1..Len(db) :
                         db[i].resolution \in {"win", "loss", "sold"}})
      available == startingBankroll + realizedPnl
      totalValue == available + openCost
  IN  [available |-> RoundCents(available),
       invested |-> RoundCents(openCost),
       realizedPnl |-> RoundCents(realizedPnl),
       totalValue |-> RoundCents(totalValue)]

\* calculateBankroll(db, startingBankroll)
calculateBankroll(db, startingBankroll) ==
  LET openCost ==
        SumCostBasis(db, {i \in 1..Len(db) : db[i].resolution = "open"})
      realizedPnl ==
        SumProfit(db, {i \in 1..Len(db) :
                         db[i].resolution \in {"win", "loss", "sold"}})
      available == startingBankroll - openCost + realizedPnl
      totalValue == available + openCost
  IN  [available |-> RoundCents(available),
       invested |-> RoundCents(openCost),
       realizedPnl |-> RoundCents(realizedPnl),
       totalValue |-> RoundCents(totalValue)]

\* mutant: the loop stops only below zero
depleted_Strict(available) == available < 0

\* mutant: only the current signal is counted when the loop stops
bulkSkipped_One(n, opened, skipped) == skipped + 1

\* if (available <= 0)
depleted(available) == available <= 0

\* skipped += signals.length - opened - skipped
bulkSkipped(n, opened, skipped) == skipped + (n - opened - skipped)

RECURSIVE ExecLoop(_, _, _, _, _, _, _, _, _, _)
\* the for loop of executePaperTrades from the i-th signal on
ExecLoop(db, mkts, signals, i, opened, skipped, log, startingBankroll, kellyMultiplier, maxPositionPct) ==
  IF i > Len(signals)
  THEN [ret |-> [NoRet EXCEPT !.status = "ok", !.opened = opened,
                              !.skipped = skipped],
        db |-> db, log |-> log]
  ELSE LET available == calculateBankroll(db, startingBankroll).available
           result == openTrade(db, mkts, signals[i], available,
                               kellyMultiplier, maxPositionPct)
           entry(what) == [ticker |-> signals[i].ticker, available |-> available,
                           trades |-> Len(db), outcome |-> what]
       IN  IF depleted(available)
           THEN [ret |-> [NoRet EXCEPT !.status = "ok", !.opened = opened,
                            !.skipped = bulkSkipped(Len(signals), opened,
                                                    skipped)],
                 db |-> db, log |-> Append(log, entry("break"))]
           ELSE IF result.ret.status = "throws"
           THEN [ret |-> RetThrows, db |-> result.db,
                 log |-> Append(log, entry("throws"))]
           ELSE IF result.ret.status = "ok"
           THEN ExecLoop(result.db, mkts, signals, i + 1, opened + 1, skipped,
                         Append(log, entry("opened")), startingBankroll,
                         kellyMultiplier, maxPositionPct)
           ELSE ExecLoop(result.db, mkts, signals, i + 1, opened, skipped + 1,
                         Append(log, entry("skipped")), startingBankroll,
                         kellyMultiplier, maxPositionPct)

\* executePaperTrades(db, signals, { startingBankroll, kellyMultiplier, maxPositionPct })
executePaperTrades(db, mkts, signals, startingBankroll, kellyMultiplier, maxPositionPct) ==
  ExecLoop(db, mkts, signals, 1, 0, 0, <<>>, startingBankroll, kellyMultiplier,
           maxPositionPct)

(***************************************************************************)
(* Resolution tracker (resolution.js).                                     *)
(***************************************************************************)
\* mutant: the SELECT drops pt.resolution = 'open'
SettledOpenIds_AnyState(db, mkts) ==
  {i \in 1..Len(db) : /\ mkts[db[i].ticker].present
                      /\ mkts[db[i].ticker].result # NULL
                      /\ mkts[db[i].ticker].result # ""}

\* the rows of the SELECT of resolveSettledTrades, by id
SettledOpenIds(db, mkts) ==
  {i \in 1..Len(db) : /\ db[i].resolution = "open"
                      /\ mkts[db[i].ticker].present
                      /\ mkts[db[i].ticker].result # NULL
                      /\ mkts[db[i].ticker].result # ""}

\* mutant: the trade's side is ignored
Won_YesOnly(tradeSide, marketResult) == marketResult = "yes"

\* const won = (tradeSide === marketResult)
Won(tradeSide, marketResult) == tradeSide = marketResult

\* one pass of the loop body of runAll on trade id
ResolveOne(db, mkts, id) ==
  LET trade == db[id]
      marketResult == mkts[trade.ticker].result
      tradeSide == trade.side
      won == Won(tradeSide, marketResult)
      exitPrice == IF won THEN Scale ELSE 0
      revenue == trade.contracts * exitPrice
      profit == revenue - trade.cost_basis
      profitPct == ProfitPct(profit, trade.cost_basis)
      resolution == IF won THEN "win" ELSE "loss"
  IN  [db |-> [db EXCEPT ![id] = [trade EXCEPT !.exit_price = Some(exitPrice),
                                               !.revenue = Some(revenue),
                                               !.profit = Some(profit),
                                               !.profit_pct = Some(profitPct),
                                               !.resolution = resolution]],
       won |-> won, profit |-> profit]

RECURSIVE ResolveLoop(_, _, _, _, _, _, _)
ResolveLoop(db, mkts, ids, resolved, wins, losses, totalProfit) ==
  IF ids = {}
  THEN [ret |-> [NoRet EXCEPT !.status = "ok", !.resolved = resolved,
                              !.wins = wins, !.losses = losses,
                              !.totalProfit = RoundCents(totalProfit)],
        db |-> db]
  ELSE LET id == CHOOSE i \in ids : \A j \in ids : i <= j
           one == ResolveOne(db, mkts, id)
       IN  ResolveLoop(one.db, mkts, ids \ {id}, resolved + 1,
                       IF one.won THEN wins + 1 ELSE wins,
                       IF one.won THEN losses ELSE losses + 1,
                       totalProfit + one.profit)

\* resolveSettledTrades(db)
resolveSettledTrades(db, mkts) ==
  ResolveLoop(db, mkts, SettledOpenIds(db, mkts), 0, 0, 0, 0)

(***************************************************************************)
(* Mispricing detector (mispricing.js).                                    *)
(***************************************************************************)
\* mutant: the score is taken from the rounded absolute edge
MakeSignal_RoundedFirst(ticker, category, marketPrice, est) ==
  [ticker |-> ticker, category |-> category, marketPrice |-> marketPrice,
   modelProb |-> est.estimated_prob, confidence |-> est.confidence,
   modelName |-> est.model_name,
   edge |-> ToFixed(RoundTo(FromFixed(est.estimated_prob - marketPrice), 1000)),
   absEdge |-> ToFixed(RoundTo(FromFixed(Abs(est.estimated_prob - marketPrice)),
                               1000)),
   side |-> IF est.estimated_prob > marketPrice THEN "yes" ELSE "no",
   score |-> ToFixed(RoundTo(
               QMul(RoundTo(FromFixed(Abs(est.estimated_prob - marketPrice)),
                            1000),
                    FromFixed(est.confidence)), 1000))]

\* the signal pushed for one market row and one estimate row
MakeSignal(ticker, category, marketPrice, est) ==
  LET edge == est.estimated_prob - marketPrice
      absEdge == Abs(edge)
      side == IF edge > 0 THEN "yes" ELSE "no"
      score == QMul(FromFixed(absEdge), FromFixed(est.confidence))
  IN  [ticker |-> ticker, category |-> category, marketPrice |-> marketPrice,
       modelProb |-> est.estimated_prob, confidence |-> est.confidence,
       modelName |-> est.model_name,
       edge |-> ToFixed(RoundTo(FromFixed(edge), 1000)),
       absEdge |-> ToFixed(RoundTo(FromFixed(absEdge), 1000)),
       side |-> side,
       score |-> ToFixed(RoundTo(score, 1000))]

\* MAX(timestamp) of the estimates of one ticker and model
MaxTs(ests, ticker, model_name) ==
  LET ts == {ests[i].timestamp : i \in {j \in 1..Len(ests) :
                 ests[j].ticker = ticker /\ ests[j].model_name = model_name}}
  IN  CHOOSE m \in ts : \A x \in ts : x <= m

RECURSIVE EstimateLoop(_, _, _, _, _, _, _)
\* the inner loop: the signals of one market, estimates taken in rows order
EstimateLoop(ticker, mkt, ests, rows, k, minEdgePct, minConfidence) ==
  IF k > Len(rows) THEN <<>>
  ELSE LET est == ests[rows[k]]
           absEdge == Abs(est.estimated_prob - mkt.last_yes_price[1])
           edgePct == QMul(FromFixed(absEdge), QInt(100))
           rest == EstimateLoop(ticker, mkt, ests, rows, k + 1, minEdgePct,
                                minConfidence)
       IN  IF est.confidence < minConfidence THEN rest
           ELSE IF QLt(edgePct, QInt(minEdgePct)) THEN rest
           ELSE <<MakeSignal(ticker, mkt.category, mkt.last_yes_price[1], est)>>
                \o rest

RECURSIVE MarketLoop(_, _, _, _, _, _, _)
\* the outer loop over the selected markets, in the order the query gave
MarketLoop(mkts, ests, marketRows, estOrder, k, minEdgePct, minConfidence) ==
  IF k > Len(marketRows) THEN <<>>
  ELSE LET ticker == marketRows[k]
           latest(id) == /\ ests[id].ticker = ticker
                         /\ ests[id].timestamp
                              = MaxTs(ests, ticker, ests[id].model_name)
           rows == SelectSeq(estOrder, latest)
       IN  EstimateLoop(ticker, mkts[ticker], ests, rows, 1, minEdgePct,
                        minConfidence)
           \o MarketLoop(mkts, ests, marketRows, estOrder, k + 1, minEdgePct,
                         minConfidence)

\* mutant: the list is left in the order the loops pushed it
SortByScore_Unsorted(signals) == signals

RECURSIVE InsertByScore(_, _)
\* sorted is ordered by score descending; x goes after every element whose
\* score is not lower (Array.prototype.sort is stable)
InsertByScore(sorted, x) ==
  IF sorted = <<>> THEN <<x>>
  ELSE IF Head(sorted).score >= x.score
       THEN <<Head(sorted)>> \o InsertByScore(Tail(sorted), x)
       ELSE <<x>> \o sorted

RECURSIVE SortByScore(_)
\* signals.sort((a, b) => b.score - a.score)
SortByScore(signals) ==
  IF signals = <<>> THEN <<>>
  ELSE InsertByScore(SortByScore(SubSeq(signals, 1, Len(signals) - 1)),
                     signals[Len(signals)])

\* mutant: the price band leaves its two bounds out
selectedMarket_OpenBand(mkt, coinFlipMin, coinFlipMax) ==
  /\ mkt.present
  /\ mkt.status = "active"
  /\ mkt.last_yes_price # None
  /\ mkt.last_yes_price[1] > coinFlipMin
  /\ mkt.last_yes_price[1] < coinFlipMax

\* mutant: the WHERE clause drops m.status = 'active'
selectedMarket_AnyStatus(mkt, coinFlipMin, coinFlipMax) ==
  /\ mkt.present
  /\ mkt.last_yes_price # None
  /\ mkt.last_yes_price[1] >= coinFlipMin
  /\ mkt.last_yes_price[1] <= coinFlipMax

\* WHERE m.status = 'active' AND m.last_yes_price IS NOT NULL
\*   AND m.last_yes_price >= ? AND m.last_yes_price <= ?
selectedMarket(mkt, coinFlipMin, coinFlipMax) ==
  /\ mkt.present
  /\ mkt.status = "active"
  /\ mkt.last_yes_price # None
  /\ mkt.last_yes_price[1] >= coinFlipMin
  /\ mkt.last_yes_price[1] <= coinFlipMax

\* detectMispricings(db, { minEdgePct, minConfidence, coinFlipMin, coinFlipMax });
\* mktOrder and estOrder are the row orders the two queries return (neither
\* query has an ORDER BY)
detectMispricings(mkts, ests, mktOrder, estOrder, minEdgePct, minConfidence, coinFlipMin, coinFlipMax) ==
  LET selected(t) == selectedMarket(mkts[t], coinFlipMin, coinFlipMax)
      marketRows == SelectSeq(mktOrder, selected)
  IN  SortByScore(MarketLoop(mkts, ests, marketRows, estOrder, 1, minEdgePct,
                             minConfidence))

\* all.slice(0, limit), for limit >= 0
sliceTo(all, limit) ==
  SubSeq(all, 1, IF limit < Len(all) THEN limit ELSE Len(all))

\* getTopSignals(db, { limit, minEdgePct, minConfidence, coinFlipMin, coinFlipMax })
getTopSignals(mkts, ests, mktOrder, estOrder, limit, minEdgePct, minConfidence, coinFlipMin, coinFlipMax) ==
  sliceTo(detectMispricings(mkts, ests, mktOrder, estOrder, minEdgePct,
                            minConfidence, coinFlipMin, coinFlipMax),
          limit)

(***************************************************************************)
(* Market ingestion (ingestion.js) and estimate storage (models/base.js).  *)
(***************************************************************************)
\* mapStatus(apiStatus), on lower-case API strings
mapStatus(apiStatus) ==
  LET s == apiStatus
  IN  IF s = "open" \/ s = "active" THEN "active"
      ELSE IF s = "closed" THEN "closed"
      ELSE IF s = "settled" THEN "settled"
      ELSE IF s = "" THEN "active" ELSE s

\* the row upsertMarkets leaves for API market m, given the row old
upsertRow(old, m) ==
  LET result == IF m.result = "" THEN NULL ELSE m.result
      category == IF m.category = "" THEN NULL ELSE m.category
      price == IF m.last_price # None THEN Some(m.last_price[1] * (Scale \div 100))
               ELSE IF m.yes_bid # None THEN Some(m.yes_bid[1] * (Scale \div 100))
               ELSE None
  IN  [present |-> TRUE,
       status |-> mapStatus(m.status),
       result |-> IF result # NULL \/ ~old.present THEN result ELSE old.result,
       last_yes_price |-> price,
       category |-> IF category # NULL \/ ~old.present THEN category
                    ELSE old.category]

(***************************************************************************)
(* Price snapshots (snapshots.js) and retention (db.js).                   *)
(***************************************************************************)
\* the row recordSnapshot inserts; snapshot.timestamp || Date.now()
snapshotRow(snapshot, now) ==
  [ticker |-> snapshot.ticker,
   timestamp |-> IF snapshot.timestamp # None /\ snapshot.timestamp # Some(0)
                 THEN snapshot.timestamp[1] ELSE now,
   last_price |-> snapshot.last_price,
   open_interest |-> snapshot.open_interest]

RECURSIVE SnapshotLoop(_, _, _, _, _)
\* the loop of snapshotAllActive over the active markets, in the order the
\* SELECT returned them
SnapshotLoop(snaps, mkts, mktOrder, i, now) ==
  IF i > Len(mktOrder) THEN snaps
  ELSE LET m == mkts[mktOrder[i]]
       IN  IF m.present /\ m.status = "active" /\ m.last_yes_price # None
           THEN SnapshotLoop(Append(snaps,
                                    [ticker |-> mktOrder[i], timestamp |-> now,
                                     last_price |-> m.last_yes_price,
                                     open_interest |-> None]),
                             mkts, mktOrder, i + 1, now)
           ELSE SnapshotLoop(snaps, mkts, mktOrder, i + 1, now)

\* snapshotAllActive(db); now is Date.now()
snapshotAllActive(snaps, mkts, mktOrder, now) ==
  SnapshotLoop(snaps, mkts, mktOrder, 1, now)

\* mutant: a row at the cutoff is deleted too
olderThan_OrAt(row, cutoff) == row.timestamp <= cutoff

\* WHERE timestamp < ?
olderThan(row, cutoff) == row.timestamp < cutoff

RECURSIVE deleteOlder(_, _)
\* DELETE FROM ... WHERE timestamp < cutoff: the rows that stay
deleteOlder(rows, cutoff) ==
  IF rows = <<>> THEN <<>>
  ELSE IF olderThan(Head(rows), cutoff) THEN deleteOlder(Tail(rows), cutoff)
  ELSE <<Head(rows)>> \o deleteOlder(Tail(rows), cutoff)

\* pruneOldData(db, retentionMs); now is Date.now()
pruneOldData(snaps, ests, now, retentionMs) ==
  LET cutoff == now - retentionMs
  IN  [snapshots |-> deleteOlder(snaps, cutoff),
       estimates |-> deleteOlder(ests, cutoff),
       snapshotsDeleted |-> Len(snaps) - Len(deleteOlder(snaps, cutoff)),
       estimatesDeleted |-> Len(ests) - Len(deleteOlder(ests, cutoff))]

(***************************************************************************)
(* Inputs.                                                                 *)
(***************************************************************************)
\* config.js defaults
MinEdgePct == 5
MinConfidence == 6000
CoinFlipMin == 3000
CoinFlipMax == 7000

Category(t) == IF t = "T1" THEN "weather" ELSE "economics"

ApiMarket(t, status, result) ==
  [ticker |-> t, category |-> Category(t), status |-> status,
   result |-> result, last_price |-> Some(40), yes_bid |-> None]

\* markets as the Kalshi API reports them (prices in cents)
Feed ==
  {ApiMarket("T1", "open", ""), ApiMarket("T1", "settled", "yes"),
   ApiMarket("T1", "settled", "no"), ApiMarket("T2", "open", "")}

\* signals handed to openTrade and executePaperTrades by a caller
DirectSignal(t, p) ==
  MakeSignal(t, Category(t), 4000,
             [estimated_prob |-> p, confidence |-> 8500, model_name |-> "weather"])

DirectSignals ==
  {DirectSignal("T1", 7000), DirectSignal("T1", 2000), DirectSignal("T2", 7000)}

SignalLists == UNION {[1..n -> DirectSignals] : n \in 0..MaxSignals}

\* { startingBankroll / bankroll, kellyMultiplier, maxPositionPct }: $20.00
\* under the default policy, and $0.80 under an all-in policy
Accounts == {[bankroll |-> 200000, kellyMultiplier |-> <<1, 4>>,
              maxPositionPct |-> 5],
             [bankroll |-> 8000, kellyMultiplier |-> <<2, 1>>,
              maxPositionPct |-> 100]}

ExitPrices == {3000, 5550}

(***************************************************************************)
(* Operations, one call at a time.                                         *)
(***************************************************************************)
Init ==
  /\ markets = [t \in Tickers |-> NoMarket]
  /\ estimates = <<>>
  /\ trades = <<>>
  /\ lastOp = Op("init", NULL, 0, NoRet, <<>>)
  /\ callers = <<>>
  /\ AsideInit

UpsertMarkets(m) ==
  /\ markets' = [markets EXCEPT ![m.ticker] = upsertRow(markets[m.ticker], m)]
  /\ lastOp' = Op("upsertMarkets", m.ticker, 1,
                  [NoRet EXCEPT !.status = "ok"], <<>>)
  /\ UNCHANGED <<estimates, trades, callers, aside>>

OpenTrade(signal, a) ==
  /\ \E r \in {openTrade(trades, markets, signal, a.bankroll,
                         a.kellyMultiplier, a.maxPositionPct)} :
       /\ Len(r.db) <= MaxTrades
       /\ trades' = r.db
       /\ lastOp' = Op("openTrade", signal.ticker, 1, r.ret, <<>>)
  /\ UNCHANGED <<markets, estimates, callers, aside>>

CloseTrade(tradeId, exitPrice) ==
  /\ \E r \in {closeTrade(trades, tradeId, exitPrice)} :
       /\ trades' = r.db
       /\ lastOp' = Op("closeTrade", NULL, tradeId, r.ret, <<>>)
  /\ UNCHANGED <<markets, estimates, callers, aside>>

\* the tickers of the list that have no open trade: a batch adds at most
\* one trade for each of them
Openable(signals) ==
  {signals[k].ticker : k \in 1..Len(signals)}
    \ {trades[i].ticker : i \in {j \in 1..Len(trades) :
                                   trades[j].resolution = "open"}}

ExecutePaperTrades(signals, a) ==
  /\ Len(trades) + Cardinality(Openable(signals)) <= MaxTrades
  /\ \E r \in {executePaperTrades(trades, markets, signals, a.bankroll,
                                  a.kellyMultiplier, a.maxPositionPct)} :
       /\ trades' = r.db
       /\ lastOp' = Op("executePaperTrades", NULL, Len(signals), r.ret, r.log)
  /\ UNCHANGED <<markets, estimates, callers, aside>>

ResolveSettledTrades ==
  /\ \E r \in {resolveSettledTrades(trades, markets)} :
       /\ trades' = r.db
       /\ lastOp' = Op("resolveSettledTrades", NULL, 0, r.ret, <<>>)
  /\ UNCHANGED <<markets, estimates, callers, aside>>

Next ==
  \/ \E m \in Feed : UpsertMarkets(m)
  \/ \E sig \in DirectSignals, a \in Accounts : OpenTrade(sig, a)
  \/ \E id \in 1..(Len(trades) + 1), x \in ExitPrices : CloseTrade(id, x)
  \/ \E sigs \in SignalLists, a \in Accounts : ExecutePaperTrades(sigs, a)
  \/ ResolveSettledTrades

Spec == Init /\ [][Next]_vars

\* shorthands for the ledger's current state
IsOpen(i) == trades[i].resolution = "open"
IsTerminal(i) == trades[i].resolution \in {"win", "loss", "sold"}
Ids == 1..Len(trades)
HasResult(t) == markets[t].present /\ markets[t].result \notin {NULL, ""}

(***************************************************************************)
(* Two callers of openTrade on one database file (SpecConc).  A caller is  *)
(* a process with its own connection; each prepared statement runs         *)
(* atomically, and openTrade puts no transaction around its SELECT and its *)
(* INSERT, so another caller's statements can run between the two.         *)
(*   callers[c].pc   "idle", "select" (about to run the existence check)   *)
(*                   or "insert" (check passed, about to size and insert)  *)
(***************************************************************************)
Callers == {1, 2}
Idle == [pc |-> "idle", signal |-> DirectSignal("T1", 7000),
         account |-> CHOOSE a \in Accounts : TRUE]
InFlight == {c \in Callers : callers[c].pc # "idle"}

InitConc ==
  /\ markets = [t \in Tickers |-> NoMarket]
  /\ estimates = <<>>
  /\ trades = <<>>
  /\ lastOp = Op("init", NULL, 0, NoRet, <<>>)
  /\ callers = [c \in Callers |-> Idle]
  /\ AsideInit

\* caller c enters openTrade(db, signal, account)
CallOpenTrade(c, signal, a) ==
  /\ callers[c].pc = "idle"
  /\ Len(trades) + Cardinality(InFlight) < MaxTrades
  /\ callers' = [callers EXCEPT ![c] = [pc |-> "select", signal |-> signal,
                                        account |-> a]]
  /\ UNCHANGED <<markets, estimates, trades, lastOp, aside>>

\* caller c runs the SELECT; it returns null if a row came back
SelectExisting(c) ==
  /\ callers[c].pc = "select"
  /\ IF existingOpenTrade(trades, callers[c].signal)
     THEN /\ callers' = [callers EXCEPT ![c] = Idle]
          /\ lastOp' = Op("openTrade", callers[c].signal.ticker, c, RetNull,
                          <<>>)
     ELSE /\ callers' = [callers EXCEPT ![c].pc = "insert"]
          /\ UNCHANGED lastOp
  /\ UNCHANGED <<markets, estimates, trades, aside>>

\* caller c sizes the position and runs the INSERT, then returns
InsertTrade(c) ==
  /\ callers[c].pc = "insert"
  /\ \E r \in {openTradeInsert(trades, markets, callers[c].signal,
                               callers[c].account.bankroll,
                               callers[c].account.kellyMultiplier,
                               callers[c].account.maxPositionPct)} :
       /\ trades' = r.db
       /\ lastOp' = Op("openTrade", callers[c].signal.ticker, c, r.ret, <<>>)
  /\ callers' = [callers EXCEPT ![c] = Idle]
  /\ UNCHANGED <<markets, estimates, aside>>

\* the market feed writes a row while callers are at work
ConcUpsertMarkets(m) ==
  /\ markets' = [markets EXCEPT ![m.ticker] = upsertRow(markets[m.ticker], m)]
  /\ UNCHANGED <<estimates, trades, lastOp, callers, aside>>

NextConc ==
  \/ \E m \in Feed : ConcUpsertMarkets(m)
  \/ \E c \in Callers, sig \in DirectSignals, a \in Accounts :
       CallOpenTrade(c, sig, a)
  \/ \E c \in Callers : SelectExisting(c)
  \/ \E c \in Callers : InsertTrade(c)

SpecConc == InitConc /\ [][NextConc]_vars

(***************************************************************************)
(* The model cycle of index.js beside direct callers (SpecCycle): the feed *)
(* also closes markets, models store estimates, and a cycle detects        *)
(* mispricings and trades on them.                                         *)
(***************************************************************************)
CycleFeed ==
  {ApiMarket("T1", "open", ""), ApiMarket("T1", "closed", ""),
   ApiMarket("T1", "settled", "yes"), ApiMarket("T2", "open", "")}

\* the estimate a model hands to storeEstimate
EstimateInputs ==
  {[ticker |-> t, estimatedProb |-> 7000, confidence |-> 8500] : t \in Tickers}

\* the orders in which a query without ORDER BY can return the rows S
Orders(S) ==
  {o \in [1..Cardinality(S) -> S] :
     \A i, j \in 1..Cardinality(S) : i # j => o[i] # o[j]}

\* storeEstimate(db, modelName, estimate); now is Date.now()
StoreEstimate(modelName, estimate, now) ==
  /\ Len(estimates) < MaxEstimates
  \* model_estimates.ticker REFERENCES markets(ticker)
  /\ markets[estimate.ticker].present
  /\ estimates' = Append(estimates,
                         [ticker |-> estimate.ticker, timestamp |-> now,
                          model_name |-> modelName,
                          estimated_prob |-> estimate.estimatedProb,
                          confidence |-> estimate.confidence])
  /\ lastOp' = Op("storeEstimate", estimate.ticker, now,
                  [NoRet EXCEPT !.status = "ok"], <<>>)
  /\ UNCHANGED <<markets, trades, callers, aside>>

\* the clock does not run backwards
Clock ==
  IF estimates = <<>> THEN {1}
  ELSE {estimates[Len(estimates)].timestamp,
        estimates[Len(estimates)].timestamp + 1}

\* steps 2 and 3 of modelCycle: detectMispricings, then executePaperTrades
\* if there are signals
ModelCycle(mktOrder, estOrder, a) ==
  /\ \E signals \in {detectMispricings(markets, estimates, mktOrder, estOrder,
                                       MinEdgePct, MinConfidence, CoinFlipMin,
                                       CoinFlipMax)} :
       IF Len(signals) > 0
       THEN \E r \in {executePaperTrades(trades, markets, signals, a.bankroll,
                                         a.kellyMultiplier,
                                         a.maxPositionPct)} :
              /\ Len(r.db) <= MaxTrades
              /\ trades' = r.db
              /\ lastOp' = Op("modelCycle", NULL, Len(signals), r.ret, r.log)
       ELSE /\ trades' = trades
            /\ lastOp' = Op("modelCycle", NULL, 0,
                            [NoRet EXCEPT !.status = "ok"], <<>>)
  /\ UNCHANGED <<markets, estimates, callers, aside>>

NextCycle ==
  \/ \E m \in CycleFeed : UpsertMarkets(m)
  \/ \E e \in EstimateInputs, now \in Clock : StoreEstimate("weather", e, now)
  \/ \E sig \in DirectSignals, a \in Accounts : OpenTrade(sig, a)
  \/ \E mo \in Orders(Tickers), eo \in Orders(1..Len(estimates)),
        a \in Accounts : ModelCycle(mo, eo, a)

SpecCycle == Init /\ [][NextCycle]_vars

(***************************************************************************)
(* The detector on its own (SpecDetect): a markets table as one poll of    *)
(* the feed leaves it, estimates stored by two models, then                *)
(* detectMispricings and getTopSignals.  lastOp.log holds the list a call  *)
(* returned.                                                               *)
(***************************************************************************)
ApiMarketAt(t, status, lastPrice) ==
  [ticker |-> t, category |-> Category(t), status |-> status, result |-> "",
   last_price |-> lastPrice, yes_bid |-> None]

\* T1 as the feed can report it: prices in cents around the two ends of the
\* band, without a price, and closed
DetectFeedT1 ==
  {ApiMarketAt("T1", "open", Some(c)) : c \in {29, 30, 40, 70, 71}}
    \cup {ApiMarketAt("T1", "open", None), ApiMarketAt("T1", "closed", Some(40))}

ModelNames == {"weather", "base_rate"}

ModelEstimate(modelName, ticker, p, c) ==
  [modelName |-> modelName,
   estimate |-> [ticker |-> ticker, estimatedProb |-> p, confidence |-> c]]

\* what the models hand to storeEstimate: the weather model estimates T1
\* around the 5% edge and the 0.6 confidence thresholds (0.45, 0.4499, 0.35
\* and 0.4505 against a price of 0.40) and T2; the base-rate model T1
DetectEstimates ==
  {ModelEstimate("weather", "T1", p, c) :
     p \in {4500, 4499, 3500, 4505}, c \in {5999, 6000, 9000}}
    \cup {ModelEstimate("weather", "T2", 7000, 8500),
          ModelEstimate("base_rate", "T1", 4500, 6000)}

\* limit of getTopSignals
Limits == 0..MaxEstimates

InitDetect ==
  /\ \E m \in DetectFeedT1 :
       markets = [t \in Tickers |->
                    IF t = "T1" THEN upsertRow(NoMarket, m)
                    ELSE upsertRow(NoMarket, ApiMarketAt("T2", "open", Some(40)))]
  /\ estimates = <<>>
  /\ trades = <<>>
  /\ lastOp = Op("init", NULL, 0, NoRet, <<>>)
  /\ callers = <<>>
  /\ AsideInit

DetectMispricings(mktOrder, estOrder) ==
  /\ \E signals \in {detectMispricings(markets, estimates, mktOrder, estOrder,
                                       MinEdgePct, MinConfidence, CoinFlipMin,
                                       CoinFlipMax)} :
       lastOp' = Op("detectMispricings", NULL, Len(signals),
                    [NoRet EXCEPT !.status = "ok"], signals)
  /\ UNCHANGED <<markets, estimates, trades, callers, aside>>

GetTopSignals(mktOrder, estOrder, limit) ==
  /\ \E top \in {getTopSignals(markets, estimates, mktOrder, estOrder, limit,
                               MinEdgePct, MinConfidence, CoinFlipMin,
                               CoinFlipMax)} :
       lastOp' = Op("getTopSignals", NULL, limit,
                    [NoRet EXCEPT !.status = "ok"], top)
  /\ UNCHANGED <<markets, estimates, trades, callers, aside>>

NextDetect ==
  \/ \E e \in DetectEstimates, now \in Clock :
       StoreEstimate(e.modelName, e.estimate, now)
  \/ \E mo \in Orders(Tickers), eo \in Orders(1..Len(estimates)) :
       DetectMispricings(mo, eo)
  \/ \E mo \in Orders(Tickers), eo \in Orders(1..Len(estimates)),
        limit \in Limits : GetTopSignals(mo, eo, limit)

SpecDetect == InitDetect /\ [][NextDetect]_vars

(***************************************************************************)
(* Retention beside the ledger (SpecPrune): the poll cycle's snapshots,    *)
(* the models' estimates, the ledger operations and pruneOldData.          *)
(***************************************************************************)
\* one market, that opens and settles
PruneFeed == {ApiMarket("T1", "open", ""), ApiMarket("T1", "settled", "yes")}

PruneSignals == {DirectSignal("T1", 7000)}

PruneSignalLists == UNION {[1..n -> PruneSignals] : n \in 1..MaxSignals}

DefaultAccount == [bankroll |-> 200000, kellyMultiplier |-> <<1, 4>>,
                   maxPositionPct |-> 5]

\* Date.now(): not before the newest row that is kept, up to MaxClock
Now ==
  LET stamps == {snapshots[i].timestamp : i \in 1..Len(snapshots)}
                  \cup {estimates[i].timestamp : i \in 1..Len(estimates)}
                  \cup {1}
      newest == CHOOSE t \in stamps : \A u \in stamps : u <= t
  IN  {newest, newest + 1} \cap (1..MaxClock)

\* retentionMs: keep nothing older than now, or than one tick ago
Retentions == {0, 1}

SnapshotAllActive(mktOrder, now) ==
  /\ \E snaps \in {snapshotAllActive(snapshots, markets, mktOrder, now)} :
       /\ Len(snaps) <= MaxSnapshots
       /\ snapshots' = snaps
       /\ lastOp' = Op("snapshotAllActive", NULL, Len(snaps) - Len(snapshots),
                       [NoRet EXCEPT !.status = "ok"], <<>>)
  /\ UNCHANGED <<markets, estimates, trades, callers, config, timers, client>>

PruneOldData(now, retentionMs) ==
  /\ \E r \in {pruneOldData(snapshots, estimates, now, retentionMs)} :
       /\ snapshots' = r.snapshots
       /\ estimates' = r.estimates
       /\ lastOp' = Op("pruneOldData", NULL, now - retentionMs,
                       [NoRet EXCEPT !.status = "ok"],
                       <<r.snapshotsDeleted, r.estimatesDeleted>>)
  /\ UNCHANGED <<markets, trades, callers, config, timers, client>>

NextPrune ==
  \/ \E m \in PruneFeed : UpsertMarkets(m)
  \/ \E mo \in Orders(Tickers), now \in Now : SnapshotAllActive(mo, now)
  \/ \E now \in Now :
       StoreEstimate("weather",
                     [ticker |-> "T1", estimatedProb |-> 7000,
                      confidence |-> 8500], now)
  \/ \E sig \in PruneSignals : OpenTrade(sig, DefaultAccount)
  \/ \E id \in 1..(Len(trades) + 1) : CloseTrade(id, 5550)
  \/ \E sigs \in PruneSignalLists : ExecutePaperTrades(sigs, DefaultAccount)
  \/ ResolveSettledTrades
  \/ \E now \in Now, retentionMs \in Retentions : PruneOldData(now, retentionMs)

SpecPrune == Init /\ [][NextPrune]_vars

(***************************************************************************)
(* The detector beside recorded liquidity (SpecLiquidity): snapshots that  *)
(* carry a market's open interest, estimates, and detectMispricings called *)
(* with a minLiquidity option.                                             *)
(***************************************************************************)
\* config.minLiquidity, and the option's default
MinLiquidities == {0, 100}

\* open interest as a snapshot reports it
OpenInterests == {0, 50, 500}

SnapshotInputs ==
  {[ticker |-> t, timestamp |-> None, last_price |-> Some(4000),
    open_interest |-> Some(oi)] : t \in Tickers, oi \in OpenInterests}

InitLiquidity ==
  /\ markets = [t \in Tickers |-> upsertRow(NoMarket, ApiMarket(t, "open", ""))]
  /\ estimates = <<>>
  /\ trades = <<>>
  /\ lastOp = Op("init", NULL, 0, NoRet, <<>>)
  /\ callers = <<>>
  /\ AsideInit

\* recordSnapshot(db, snapshot); now is Date.now()
RecordSnapshot(snapshot, now) ==
  /\ Len(snapshots) < MaxSnapshots
  /\ markets[snapshot.ticker].present
  /\ snapshots' = Append(snapshots, snapshotRow(snapshot, now))
  /\ lastOp' = Op("recordSnapshot", snapshot.ticker, now,
                  [NoRet EXCEPT !.status = "ok"], <<>>)
  /\ UNCHANGED <<markets, estimates, trades, callers, config, timers, client>>

\* detectMispricings(db, { minEdgePct, minConfidence, minLiquidity }):
\* minLiquidity is taken from the options and not read again
DetectWithLiquidity(mktOrder, estOrder, minLiquidity) ==
  /\ \E signals \in {detectMispricings(markets, estimates, mktOrder, estOrder,
                                       MinEdgePct, MinConfidence, CoinFlipMin,
                                       CoinFlipMax)} :
       lastOp' = Op("detectMispricings", NULL, minLiquidity,
                    [NoRet EXCEPT !.status = "ok"], signals)
  /\ UNCHANGED <<markets, estimates, trades, callers, aside>>

NextLiquidity ==
  \/ \E snapshot \in SnapshotInputs, now \in Now : RecordSnapshot(snapshot, now)
  \/ \E e \in EstimateInputs, now \in Now : StoreEstimate("weather", e, now)
  \/ \E mo \in Orders(Tickers), eo \in Orders(1..Len(estimates)),
        minLiquidity \in MinLiquidities : DetectWithLiquidity(mo, eo, minLiquidity)

SpecLiquidity == InitLiquidity /\ [][NextLiquidity]_vars

(***************************************************************************)
(* The running process (SpecTimers): main of index.js runs a first poll    *)
(* cycle, waits, runs a first model cycle and then sets the two interval   *)
(* timers.  A cycle is an async function whose whole body sits in          *)
(* try/catch; it gives way to other callbacks only at an await:            *)
(*   pollCycle   ingest (await ingestMarkets: the fetch is awaited, and    *)
(*               upsertMarkets runs when it has returned), then ledger     *)
(*               (snapshotAllActive, resolveSettledTrades,                 *)
(*               updateDailyStats, with no await between them)             *)
(*   modelCycle  run (await modelRunner.run: each model.estimate is        *)
(*               awaited and its estimate stored), then trade              *)
(*               (detectMispricings, calculateBankroll,                    *)
(*               executePaperTrades and the log line, with no await        *)
(*               between them)                                             *)
(* timers.main is where main is; the interval timers are set once it is    *)
(* "running".  A cycle's outcome is how its last run ended.  One run of    *)
(* each cycle is in flight at a time.                                      *)
(***************************************************************************)
IdleCycle == [pc |-> "idle", outcome |-> "none"]

\* mutant: the error leaves the cycle and stops main and its timers
afterCatch_Escapes(t, c) ==
  [t EXCEPT ![c] = [pc |-> "idle", outcome |-> "error"], !.main = "stopped"]

\* catch (err) { console.error(...) }: the cycle ends, nothing else changes
afterCatch(t, c) == [t EXCEPT ![c] = [pc |-> "idle", outcome |-> "error"]]

\* the cycle reaches its end
afterEnd(t, c) == [t EXCEPT ![c] = [pc |-> "idle", outcome |-> "ok"]]

\* the steps of a cycle's synchronous part at which the storage can fail
PollFailures == {"none", "snapshot", "resolve", "stats"}
TradeFailures == {"none", "detect"}

\* steps 2 to 4 of pollCycle, with the statement that throws, if any
pollLedger(snaps, db, mkts, mktOrder, now, fail) ==
  IF fail = "snapshot"
  THEN [snapshots |-> snaps, db |-> db, outcome |-> "error"]
  ELSE IF fail = "resolve"
  THEN [snapshots |-> snapshotAllActive(snaps, mkts, mktOrder, now),
        db |-> db, outcome |-> "error"]
  ELSE [snapshots |-> snapshotAllActive(snaps, mkts, mktOrder, now),
        db |-> resolveSettledTrades(db, mkts).db,
        outcome |-> IF fail = "stats" THEN "error" ELSE "ok"]

\* step 3 of modelCycle: with signals, executePaperTrades writes its trades
\* and the log line then calls toFixed on the object calculateBankroll
\* returned, which throws a TypeError into the cycle's catch
tradeOnSignals(db, mkts, signals, cfg) ==
  IF Len(signals) > 0
  THEN [db |-> executePaperTrades(db, mkts, signals, cfg.bankroll,
                                  cfg.kellyMultiplier, cfg.maxPositionPct).db,
        outcome |-> "error"]
  ELSE [db |-> db, outcome |-> "ok"]

\* steps 2 and 3 of modelCycle, with the statement that throws, if any
modelTrade(db, mkts, ests, mktOrder, estOrder, cfg, fail) ==
  IF fail = "detect" THEN [db |-> db, outcome |-> "error"]
  ELSE tradeOnSignals(db, mkts,
                      detectMispricings(mkts, ests, mktOrder, estOrder,
                                        MinEdgePct, MinConfidence, CoinFlipMin,
                                        CoinFlipMax),
                      cfg)

\* what the exchange reports for the one market that is followed
TimersFeed == {ApiMarket("T1", "open", ""), ApiMarket("T1", "settled", "yes")}

TimersEstimates ==
  {[ticker |-> "T1", estimatedProb |-> 7000, confidence |-> 8500]}

Cycle(c, step, outcome) ==
  Op(c, NULL, 0, [NoRet EXCEPT !.status = outcome], <<step>>)

InitTimers ==
  /\ markets = [t \in Tickers |-> NoMarket]
  /\ estimates = <<>>
  /\ trades = <<>>
  /\ lastOp = Op("init", NULL, 0, NoRet, <<>>)
  /\ callers = <<>>
  /\ snapshots = <<>>
  /\ config = DefaultAccount
  /\ timers = [main |-> "start", poll |-> IdleCycle, model |-> IdleCycle]
  /\ client = NULL

\* pollCycle is called: by main at the start, by its interval timer later
StartPoll ==
  /\ timers.poll.pc = "idle"
  /\ timers.main \in {"start", "running"}
  /\ timers' = [timers EXCEPT !.poll.pc = "ingest",
                              !.main = IF @ = "start" THEN "poll" ELSE @]
  /\ lastOp' = Cycle("pollCycle", "start", timers.poll.outcome)
  /\ UNCHANGED <<markets, estimates, trades, callers, snapshots, config, client>>

\* await pollCycle() has returned to main, which starts timing.delay(5000)
MainDelay ==
  /\ timers.main = "poll" /\ timers.poll.pc = "idle"
  /\ timers' = [timers EXCEPT !.main = "delay"]
  /\ UNCHANGED <<markets, estimates, trades, lastOp, callers, snapshots, config, client>>

\* modelCycle is called: by main after the delay, by its interval timer later
StartModel ==
  /\ timers.model.pc = "idle"
  /\ timers.main \in {"delay", "running"}
  /\ timers' = [timers EXCEPT !.model.pc = "run",
                              !.main = IF @ = "delay" THEN "model" ELSE @]
  /\ lastOp' = Cycle("modelCycle", "start", timers.model.outcome)
  /\ UNCHANGED <<markets, estimates, trades, callers, snapshots, config, client>>

\* await modelCycle() has returned to main, which sets the two intervals
MainSetIntervals ==
  /\ timers.main = "model" /\ timers.model.pc = "idle"
  /\ timers' = [timers EXCEPT !.main = "running"]
  /\ UNCHANGED <<markets, estimates, trades, lastOp, callers, snapshots, config, client>>

\* ingestMarkets throws (the exchange is down): the catch of pollCycle
PollIngestFails ==
  /\ timers.poll.pc = "ingest"
  /\ timers' = afterCatch(timers, "poll")
  /\ lastOp' = Cycle("pollCycle", "ingest", "error")
  /\ UNCHANGED <<markets, estimates, trades, callers, snapshots, config, client>>

\* ingestMarkets returns: upsertMarkets has run
PollIngest(m) ==
  /\ timers.poll.pc = "ingest"
  /\ markets' = [markets EXCEPT ![m.ticker] = upsertRow(markets[m.ticker], m)]
  /\ timers' = [timers EXCEPT !.poll.pc = "ledger"]
  /\ lastOp' = Cycle("pollCycle", "ingest", "ok")
  /\ UNCHANGED <<estimates, trades, callers, snapshots, config, client>>

\* steps 2 to 4 of pollCycle, to its end or to its catch
PollLedger(mktOrder, now, fail) ==
  /\ timers.poll.pc = "ledger"
  /\ \E r \in {pollLedger(snapshots, trades, markets, mktOrder, now, fail)} :
       /\ Len(r.snapshots) <= MaxSnapshots
       /\ snapshots' = r.snapshots
       /\ trades' = r.db
       /\ timers' = IF r.outcome = "error" THEN afterCatch(timers, "poll")
                    ELSE afterEnd(timers, "poll")
       /\ lastOp' = Cycle("pollCycle", fail, r.outcome)
  /\ UNCHANGED <<markets, estimates, callers, config, client>>

\* modelRunner.run stores the estimate of one model for an active market
RunEstimate(modelName, estimate, now) ==
  /\ timers.model.pc = "run"
  /\ markets[estimate.ticker].status = "active"
  /\ StoreEstimate(modelName, estimate, now)

\* modelRunner.run throws: the catch of modelCycle
ModelRunFails ==
  /\ timers.model.pc = "run"
  /\ timers' = afterCatch(timers, "model")
  /\ lastOp' = Cycle("modelCycle", "run", "error")
  /\ UNCHANGED <<markets, estimates, trades, callers, snapshots, config, client>>

\* modelRunner.run returns
ModelRunDone ==
  /\ timers.model.pc = "run"
  /\ timers' = [timers EXCEPT !.model.pc = "trade"]
  /\ lastOp' = Cycle("modelCycle", "run", "ok")
  /\ UNCHANGED <<markets, estimates, trades, callers, snapshots, config, client>>

\* steps 2 and 3 of modelCycle, to its end or to its catch
ModelTrade(mktOrder, estOrder, fail) ==
  /\ timers.model.pc = "trade"
  /\ \E r \in {modelTrade(trades, markets, estimates, mktOrder, estOrder,
                          config, fail)} :
       /\ Len(r.db) <= MaxTrades
       /\ trades' = r.db
       /\ timers' = IF r.outcome = "error" THEN afterCatch(timers, "model")
                    ELSE afterEnd(timers, "model")
       /\ lastOp' = Cycle("modelCycle", fail, r.outcome)
  /\ UNCHANGED <<markets, estimates, callers, snapshots, config, client>>

NextTimers ==
  \/ StartPoll
  \/ MainDelay
  \/ StartModel
  \/ MainSetIntervals
  \/ PollIngestFails
  \/ \E m \in TimersFeed : PollIngest(m)
  \/ \E mo \in Orders(Tickers), fail \in PollFailures : PollLedger(mo, 1, fail)
  \/ \E mn \in ModelNames, e \in TimersEstimates, now \in Clock :
       RunEstimate(mn, e, now)
  \/ ModelRunFails
  \/ ModelRunDone
  \/ \E mo \in Orders(Tickers), eo \in Orders(1..Len(estimates)),
        fail \in TradeFailures : ModelTrade(mo, eo, fail)

SpecTimers == InitTimers /\ [][NextTimers]_vars

\* how a cycle that is under way goes on: an awaited promise settles, and
\* synchronous code runs to its end or to its catch
PollGoesOn ==
  \/ PollIngestFails
  \/ \E m \in TimersFeed : PollIngest(m)
  \/ \E fail \in PollFailures : PollLedger(<<"T1", "T2">>, 1, fail)

ModelGoesOn ==
  \/ ModelRunFails
  \/ ModelRunDone
  \/ \E fail \in TradeFailures :
       ModelTrade(<<"T1", "T2">>, [i \in 1..Len(estimates) |-> i], fail)

\* the cycles with the rows read in one order and one model estimating
NextCycles ==
  \/ StartPoll
  \/ MainDelay
  \/ StartModel
  \/ MainSetIntervals
  \/ PollGoesOn
  \/ \E e \in TimersEstimates : RunEstimate("weather", e, 1)
  \/ ModelGoesOn

\* main goes on after each await, a timer that is set fires, and a cycle
\* that is under way goes on: the event loop starves no callback that is due.
\* Steps 2 and 3 of modelCycle follow the settled await in one synchronous
\* run, so the cycle never rests at them: WF_vars(ModelGoesOn) says the same,
\* its last disjunct being enabled exactly when the cycle is at that point.
SpecTimersFair ==
  /\ InitTimers /\ [][NextCycles]_vars
  /\ WF_vars(StartPoll) /\ WF_vars(StartModel)
  /\ WF_vars(MainDelay) /\ WF_vars(MainSetIntervals)
  /\ WF_vars(PollGoesOn) /\ WF_vars(ModelRunFails \/ ModelRunDone)
  /\ []<>(timers.model.pc # "trade")

(***************************************************************************)
(* The Kalshi client (kalshi-client.js): fetchEvents and its fetchWithRetry *)
(***************************************************************************)
MaxPages == 2

\* the defaults of createKalshiClient
MaxRetries == 3
RetryDelayMs == 2000
PageDelayMs == 1000

\* the HTTP statuses the exchange answers with
Statuses == {200, 429, 500}

\* res.ok
Ok(status) == status >= 200 /\ status <= 299

RECURSIVE Pow2(_)
Pow2(n) == IF n = 0 THEN 1 ELSE 2 * Pow2(n - 1)

\* mutant: every response that is not ok is tried again
shouldRetry_NotOk(status, attempt, maxRetries) ==
  ~Ok(status) /\ attempt < maxRetries

\* res.status === 429 && attempt < maxRetries
shouldRetry(status, attempt, maxRetries) ==
  status = 429 /\ attempt < maxRetries

\* retryDelayMs * Math.pow(2, attempt)
retryDelay(retryDelayMs, attempt) == retryDelayMs * Pow2(attempt)

\* a client that has made no call yet
NewClient(maxRetries, retryDelayMs) ==
  [maxRetries |-> maxRetries, retryDelayMs |-> retryDelayMs, pc |-> "idle",
   page |-> 0, attempt |-> 0, statuses |-> <<>>, waits |-> <<>>,
   returned |-> None, error |-> None, timer |-> 0]

\* fetchWithRetry is entered for the next page: its loop starts at attempt 0
enterFetchWithRetry(c) ==
  [c EXCEPT !.pc = "fetch", !.page = @ + 1, !.attempt = 0, !.statuses = <<>>,
            !.waits = <<>>, !.returned = None, !.error = None, !.timer = 0]

\* fetchWithRetry returns res to fetchEvents, which throws on a response that
\* is not ok, waits pageDelayMs when the page names a cursor, and returns
\* otherwise
afterReturn(c, status, cursor) ==
  IF ~Ok(status)
  THEN [c EXCEPT !.pc = "thrown", !.returned = Some(status),
                 !.error = Some(<<"Kalshi API error", status>>)]
  ELSE IF cursor /\ PageDelayMs > 0
  THEN [c EXCEPT !.pc = "page", !.returned = Some(status),
                 !.timer = PageDelayMs]
  ELSE IF cursor
  THEN enterFetchWithRetry([c EXCEPT !.returned = Some(status)])
  ELSE [c EXCEPT !.pc = "done", !.returned = Some(status)]

\* one turn of the loop of fetchWithRetry once fetchFn has answered
afterResponse(c, status, cursor) ==
  IF shouldRetry(status, c.attempt, c.maxRetries)
  THEN [c EXCEPT !.statuses = Append(@, status),
                 !.pc = "wait",
                 !.timer = retryDelay(c.retryDelayMs, c.attempt),
                 !.waits = Append(@, retryDelay(c.retryDelayMs, c.attempt))]
  ELSE afterReturn([c EXCEPT !.statuses = Append(@, status)], status, cursor)

InitClient ==
  /\ markets = [t \in Tickers |-> NoMarket]
  /\ estimates = <<>>
  /\ trades = <<>>
  /\ lastOp = Op("init", NULL, 0, NoRet, <<>>)
  /\ callers = <<>>
  /\ snapshots = <<>>
  /\ config = NULL
  /\ timers = NULL
  /\ client \in {NewClient(m, d) : m \in 0..MaxRetries, d \in {0, RetryDelayMs}}

\* fetchEvents is called
FetchEvents ==
  /\ client.pc \in {"idle", "done", "thrown"}
  /\ client' = enterFetchWithRetry([client EXCEPT !.page = 0])
  /\ UNCHANGED <<markets, estimates, trades, lastOp, callers, snapshots,
                 config, timers>>

\* await fetchFn(url) settles with a response; a page that is not the last
\* names a cursor
Respond(status, cursor) ==
  /\ client.pc = "fetch"
  /\ cursor => (Ok(status) /\ client.page < MaxPages)
  /\ client' = afterResponse(client, status, cursor)
  /\ UNCHANGED <<markets, estimates, trades, lastOp, callers, snapshots,
                 config, timers>>

\* await fetchFn(url) rejects: the error leaves fetchWithRetry and fetchEvents
FetchRejects ==
  /\ client.pc = "fetch"
  /\ client' = [client EXCEPT !.pc = "thrown", !.error = Some(<<"fetch failed">>)]
  /\ UNCHANGED <<markets, estimates, trades, lastOp, callers, snapshots,
                 config, timers>>

\* the backoff timer fires: continue, with attempt++
RetryTimer ==
  /\ client.pc = "wait"
  /\ client' = [client EXCEPT !.pc = "fetch", !.attempt = @ + 1, !.timer = 0]
  /\ UNCHANGED <<markets, estimates, trades, lastOp, callers, snapshots,
                 config, timers>>

\* the page delay is over: the next turn of the do-while loop
PageTimer ==
  /\ client.pc = "page"
  /\ client' = enterFetchWithRetry(client)
  /\ UNCHANGED <<markets, estimates, trades, lastOp, callers, snapshots,
                 config, timers>>

NextClient ==
  \/ FetchEvents
  \/ \E status \in Statuses, cursor \in BOOLEAN : Respond(status, cursor)
  \/ FetchRejects
  \/ RetryTimer
  \/ PageTimer

SpecClient == InitClient /\ [][NextClient]_vars

(***************************************************************************)
(* The sizer on its own (SpecSize): kellyFraction, sizePosition and        *)
(* sizeFromSignal are pure functions of their arguments and leave the      *)
(* database alone.  Here lastOp holds the call, its arguments and the      *)
(* value it returned.                                                      *)
(***************************************************************************)
\* probabilities and prices, the ends 0 and 1 and a price off the cent grid
\* (0.001, 0.333) included
SizeProbs == {0, 3500, 4000, 5500, 8000, Scale}
SizePrices == {0, 10, 3330, 4000, 6000, Scale}
\* bankrolls: overdrawn, empty, $0.08, $19.99 and $20.00
SizeBankrolls == {0 - 10000, 0, 800, 199900, 200000}
\* { kellyMultiplier, maxPositionPct }: the default policy and an all-in one
SizePolicies == {[kellyMultiplier |-> <<1, 4>>, maxPositionPct |-> 5],
                 [kellyMultiplier |-> <<2, 1>>, maxPositionPct |-> 100]}

\* a signal as a caller of sizeFromSignal hands it over
SizeSignal(marketPrice, modelProb, side) ==
  [ticker |-> "T1", category |-> Category("T1"), marketPrice |-> marketPrice,
   modelProb |-> modelProb, confidence |-> 8500, modelName |-> "weather",
   edge |-> ToFixed(RoundTo(FromFixed(modelProb - marketPrice), 1000)),
   absEdge |-> ToFixed(RoundTo(FromFixed(Abs(modelProb - marketPrice)), 1000)),
   side |-> side,
   score |-> ToFixed(RoundTo(QMul(FromFixed(Abs(modelProb - marketPrice)),
                                  FromFixed(8500)), 1000))]

SizeSignals ==
  {SizeSignal(price, p, side) :
     price \in SizePrices, p \in SizeProbs, side \in {"yes", "no"}}

NoArgs == [modelProb |-> 0, entryPrice |-> 0, bankroll |-> 0,
           kellyMultiplier |-> <<0, 1>>, maxPositionPct |-> 0,
           signal |-> SizeSignal(0, 0, "")]

Call(op, args, ret) == [op |-> op, args |-> args, ret |-> ret]

InitSize ==
  /\ markets = [t \in Tickers |-> NoMarket]
  /\ estimates = <<>>
  /\ trades = <<>>
  /\ lastOp = Call("init", NoArgs, <<>>)
  /\ callers = <<>>
  /\ AsideInit

KellyFraction(modelProb, entryPrice) ==
  /\ lastOp' = Call("kellyFraction",
                    [NoArgs EXCEPT !.modelProb = modelProb,
                                   !.entryPrice = entryPrice],
                    kellyFraction(modelProb, entryPrice))
  /\ UNCHANGED <<markets, estimates, trades, callers, aside>>

SizePosition(modelProb, entryPrice, bankroll, policy) ==
  /\ lastOp' = Call("sizePosition",
                    [NoArgs EXCEPT !.modelProb = modelProb,
                                   !.entryPrice = entryPrice,
                                   !.bankroll = bankroll,
                                   !.kellyMultiplier = policy.kellyMultiplier,
                                   !.maxPositionPct = policy.maxPositionPct],
                    sizePosition(modelProb, entryPrice, bankroll,
                                 policy.kellyMultiplier, policy.maxPositionPct))
  /\ UNCHANGED <<markets, estimates, trades, callers, aside>>

SizeFromSignal(signal, bankroll, policy) ==
  /\ lastOp' = Call("sizeFromSignal",
                    [NoArgs EXCEPT !.signal = signal,
                                   !.bankroll = bankroll,
                                   !.kellyMultiplier = policy.kellyMultiplier,
                                   !.maxPositionPct = policy.maxPositionPct],
                    sizeFromSignal(signal, bankroll, policy.kellyMultiplier,
                                   policy.maxPositionPct))
  /\ UNCHANGED <<markets, estimates, trades, callers, aside>>

NextSize ==
  \/ \E p \in SizeProbs, price \in SizePrices : KellyFraction(p, price)
  \/ \E p \in SizeProbs, price \in SizePrices, b \in SizeBankrolls,
        policy \in SizePolicies : SizePosition(p, price, b, policy)
  \/ \E sig \in SizeSignals, b \in SizeBankrolls, policy \in SizePolicies :
       SizeFromSignal(sig, b, policy)

SpecSize == InitSize /\ [][NextSize]_vars

(***************************************************************************)
(* The ledger under signals of any price (SpecBook): both markets are      *)
(* listed and open, and callers hand openTrade and executePaperTrades      *)
(* signals that the detector's coin-flip band would not let through: a     *)
(* market at a tenth of a cent, a model that is certain.                   *)
(***************************************************************************)
BookSignal(t, marketPrice, modelProb, side) ==
  [SizeSignal(marketPrice, modelProb, side) EXCEPT !.ticker = t,
                                                   !.category = Category(t)]

\* a market at 0.40 that the model puts at 0.70, one that the model is
\* certain of, and a market at 0.60 that the model puts at 0.35
BookSignals ==
  {BookSignal("T1", 4000, 7000, "yes"), BookSignal("T2", 4000, Scale, "yes"),
   BookSignal("T2", 6000, 3500, "no")}

\* a market at a tenth of a cent
PennySignal == BookSignal("T1", 10, 5500, "yes")

BookSignalLists == UNION {[1..n -> BookSignals] : n \in 0..MaxSignals}

\* $20.00 and $0.08 under the default policy
SmallAccount == [bankroll |-> 800, kellyMultiplier |-> <<1, 4>>,
                 maxPositionPct |-> 5]
BookAccounts == {[bankroll |-> 200000, kellyMultiplier |-> <<1, 4>>,
                  maxPositionPct |-> 5],
                 SmallAccount}

InitBook ==
  /\ markets = [t \in Tickers |-> upsertRow(NoMarket, ApiMarket(t, "open", ""))]
  /\ estimates = <<>>
  /\ trades = <<>>
  /\ lastOp = Op("init", NULL, 0, NoRet, <<>>)
  /\ callers = <<>>
  /\ AsideInit

NextBook ==
  \/ \E sig \in BookSignals, a \in BookAccounts : OpenTrade(sig, a)
  \/ OpenTrade(PennySignal, SmallAccount)
  \/ \E id \in 1..(Len(trades) + 1), x \in ExitPrices : CloseTrade(id, x)
  \/ \E sigs \in BookSignalLists, a \in BookAccounts :
       ExecutePaperTrades(sigs, a)

SpecBook == InitBook /\ [][NextBook]_vars

(***************************************************************************)
(* One account (SpecAccount): the daemon's configuration is read once, and *)
(* the ledger is written by executePaperTrades, closeTrade and             *)
(* resolveSettledTrades only.                                              *)
(***************************************************************************)
\* all-in policies on $0.00, $0.405 and $1.20, and the default policy on
\* $20.00: startingBankroll >= 0 and maxPositionPct <= 100
AccountConfigs ==
  {[bankroll |-> b, kellyMultiplier |-> <<2, 1>>, maxPositionPct |-> 100] :
     b \in {0, 4050, 12000}} \cup {DefaultAccount}

\* a market at 0.41 and one at 0.40 that the model puts at 0.80, and a
\* market at 0.60 that the model puts at 0.10
AccountSignals ==
  {BookSignal("T1", 4100, 8000, "yes"), BookSignal("T2", 4000, 8000, "yes"),
   BookSignal("T2", 6000, 1000, "no")}

AccountSignalLists == UNION {[1..n -> AccountSignals] : n \in 1..MaxSignals}

AccountFeed == {ApiMarket("T1", "settled", "yes"), ApiMarket("T2", "settled", "no")}

InitAccount ==
  /\ markets = [t \in Tickers |-> upsertRow(NoMarket, ApiMarket(t, "open", ""))]
  /\ estimates = <<>>
  /\ trades = <<>>
  /\ lastOp = Op("init", NULL, 0, NoRet, <<>>)
  /\ callers = <<>>
  /\ snapshots = <<>>
  /\ config \in AccountConfigs
  /\ timers = NULL
  /\ client = NULL

NextAccount ==
  \/ \E m \in AccountFeed : UpsertMarkets(m)
  \/ \E sigs \in AccountSignalLists : ExecutePaperTrades(sigs, config)
  \/ \E id \in 1..Len(trades), x \in {0} \cup ExitPrices : CloseTrade(id, x)
  \/ ResolveSettledTrades

SpecAccount == InitAccount /\ [][NextAccount]_vars

(***************************************************************************)
(* The transaction of resolveSettledTrades (SpecResolve): an UPDATE of the *)
(* pass may throw, and db.transaction then rolls the pass back and throws  *)
(* the error on.                                                           *)
(***************************************************************************)
RECURSIVE ResolveUntil(_, _, _, _)
\* the loop of runAll up to the UPDATE that throws, the failAt-th of the
\* pass: the ledger as it stands inside the transaction at that point
ResolveUntil(db, mkts, ids, failAt) ==
  IF failAt <= 1 \/ ids = {} THEN db
  ELSE LET id == CHOOSE i \in ids : \A j \in ids : i <= j
       IN  ResolveUntil(ResolveOne(db, mkts, id).db, mkts, ids \ {id},
                        failAt - 1)

\* mutant: the writes made before the error stay
transaction_NoRollback(before, inside, thrown) == inside

\* db.transaction(fn): COMMIT when fn returns, ROLLBACK when it throws
transaction(before, inside, thrown) == IF thrown THEN before ELSE inside

\* resolveSettledTrades(db) when the failAt-th UPDATE of the pass throws
resolveThrows(db, mkts, failAt) ==
  transaction(db, ResolveUntil(db, mkts, SettledOpenIds(db, mkts), failAt),
              TRUE)

ResolveFeed ==
  {ApiMarket("T1", "settled", "yes"), ApiMarket("T2", "settled", "no"),
   ApiMarket("T2", "open", "")}

InitResolve ==
  /\ markets = [t \in Tickers |-> upsertRow(NoMarket, ApiMarket(t, "open", ""))]
  /\ estimates = <<>>
  /\ trades = <<>>
  /\ lastOp = Op("init", NULL, 0, NoRet, <<>>)
  /\ callers = <<>>
  /\ AsideInit

\* a pass of resolveSettledTrades whose failAt-th UPDATE throws
ResolveThrows(failAt) ==
  /\ failAt \in 1..Cardinality(SettledOpenIds(trades, markets))
  /\ trades' = resolveThrows(trades, markets, failAt)
  /\ lastOp' = Op("resolveSettledTrades", NULL, failAt, RetThrows,
                  <<SettledOpenIds(trades, markets)>>)
  /\ UNCHANGED <<markets, estimates, callers, aside>>

NextResolve ==
  \/ \E m \in ResolveFeed : UpsertMarkets(m)
  \/ \E sigs \in BookSignalLists : ExecutePaperTrades(sigs, DefaultAccount)
  \/ ResolveSettledTrades
  \/ \E failAt \in 1..MaxTrades : ResolveThrows(failAt)

SpecResolve == InitResolve /\ [][NextResolve]_vars

(***************************************************************************)
(* Properties.                                                             *)
(***************************************************************************)
\* C1: in every reachable state each ticker has at most one trade in state
\* open.
C1_AtMostOneOpenPerTicker ==
  \A i, j \in Ids :
    (IsOpen(i) /\ IsOpen(j) /\ trades[i].ticker = trades[j].ticker) => i = j

\* a ticker with an earlier, finished trade and a later open one
C1_Witness ==
  \E i, j \in Ids : /\ i < j
                    /\ trades[i].ticker = trades[j].ticker
                    /\ IsTerminal(i)
                    /\ IsOpen(j)

\* the cost bases of the open trades 1..k, added up
RECURSIVE C2_OpenCost(_)
C2_OpenCost(k) ==
  IF k = 0 THEN 0
  ELSE (IF IsOpen(k) THEN trades[k].cost_basis ELSE 0) + C2_OpenCost(k - 1)

\* the profits of the win, loss and sold trades 1..k, added up
RECURSIVE C2_Profit(_)
C2_Profit(k) ==
  IF k = 0 THEN 0
  ELSE (IF IsTerminal(k) THEN trades[k].profit[1] ELSE 0) + C2_Profit(k - 1)

\* starting bankrolls a snapshot is asked for: $20.00, $0.80 and $4.005
C2_Bankrolls == {200000, 8000, 40050}

C3_TerminalIsFinal ==
  [][/\ Len(trades') >= Len(trades)
     /\ \A i \in Ids :
          /\ IsTerminal(i) => trades'[i] = trades[i]
          /\ IsOpen(i) => trades'[i].resolution \in {"open", "win", "loss", "sold"}
     /\ (lastOp'.op = "closeTrade" /\ ~(lastOp'.n \in Ids /\ IsOpen(lastOp'.n)))
          => (lastOp'.ret.status = "null" /\ trades' = trades)]_vars

\* closeTrade was called on a trade that was already win, loss or sold
C3_Witness ==
  /\ lastOp.op = "closeTrade"
  /\ lastOp.ret.status = "null"
  /\ lastOp.n \in Ids
  /\ IsTerminal(lastOp.n)

\* C4: openTrade for a ticker that has an open trade returns null, adds no
\* record and changes no trade.
C4_OpenTradeIdempotent ==
  [][(/\ lastOp'.op = "openTrade"
      /\ \E i \in Ids : IsOpen(i) /\ trades[i].ticker = lastOp'.ticker)
       => (lastOp'.ret.status = "null" /\ trades' = trades)]_vars

\* openTrade returned null for a ticker whose open trade is still there
C4_Witness ==
  /\ lastOp.op = "openTrade"
  /\ lastOp.ret.status = "null"
  /\ \E i \in Ids : IsOpen(i) /\ trades[i].ticker = lastOp.ticker

\* C5: with two callers running openTrade at once, each ticker still has at
\* most one open trade whenever no call is in progress.
C5_AtomicCheckThenInsert ==
  InFlight = {} =>
    \A t \in Tickers :
      Cardinality({i \in 1..Len(trades) :
                     trades[i].ticker = t /\ trades[i].resolution = "open"}) <= 1

\* C6: a resolveSettledTrades call turns every open trade whose market has a
\* result into win when the trade's side equals the result (exit price 1,
\* revenue = contracts, profit = contracts - costBasis) and into loss
\* otherwise (exit price 0, revenue 0, profit = -costBasis); every other
\* trade, the open ones without a result included, is left as it was.
C6_ResolveWinLoss ==
  [][lastOp'.op = "resolveSettledTrades" =>
       /\ Len(trades') = Len(trades)
       /\ \A i \in Ids :
            LET old == trades[i]
                new == trades'[i]
                dollars == old.contracts * Scale
            IN  IF IsOpen(i) /\ HasResult(old.ticker)
                THEN IF old.side = markets[old.ticker].result
                     THEN /\ new.resolution = "win"
                          /\ new.exit_price = Some(Scale)
                          /\ new.revenue = Some(dollars)
                          /\ new.profit = Some(dollars - old.cost_basis)
                     ELSE /\ new.resolution = "loss"
                          /\ new.exit_price = Some(0)
                          /\ new.revenue = Some(0)
                          /\ new.profit = Some(0 - old.cost_basis)
                ELSE new = old]_vars

\* one call resolved a trade while another trade, whose market has no
\* result, stayed open
C6_Witness ==
  /\ lastOp.op = "resolveSettledTrades"
  /\ lastOp.ret.resolved >= 1
  /\ \E i \in Ids : IsOpen(i) /\ ~HasResult(trades[i].ticker)
  /\ \E i \in Ids : trades[i].resolution \in {"win", "loss"}

\* C7: in the state a resolveSettledTrades call leaves, with markets and
\* trades as they are, a second resolveSettledTrades returns resolved = 0,
\* wins = 0, losses = 0, totalProfit = 0 and changes no trade.
C7_ResolveIdempotent ==
  lastOp.op = "resolveSettledTrades" =>
    \A again \in {resolveSettledTrades(trades, markets)} :
      /\ again.db = trades
      /\ again.ret.resolved = 0
      /\ again.ret.wins = 0
      /\ again.ret.losses = 0
      /\ again.ret.totalProfit = 0

\* the first call resolved a trade, whose market still carries its result
C7_Witness ==
  /\ lastOp.op = "resolveSettledTrades"
  /\ lastOp.ret.resolved >= 1
  /\ \E i \in Ids : /\ trades[i].resolution \in {"win", "loss"}
                    /\ HasResult(trades[i].ticker)

\* C8: every executePaperTrades call that returns has opened + skipped equal
\* to the number of signals it was given.
C8_OpenedPlusSkipped ==
  (lastOp.op = "executePaperTrades" /\ lastOp.ret.status = "ok")
    => lastOp.ret.opened + lastOp.ret.skipped = lastOp.n

\* a batch of two signals stopped at its second signal for lack of capital
\* after it had opened a trade for the first
C8_Witness ==
  /\ lastOp.op = "executePaperTrades"
  /\ lastOp.ret.status = "ok"
  /\ lastOp.n = 2
  /\ lastOp.ret.opened = 1
  /\ Len(lastOp.log) = 2
  /\ lastOp.log[2].outcome = "break"

\* C9: when the available capital computed before a signal of a batch is
\* <= 0, the loop stops there: that signal is the last one looked at, no
\* trade is added from then on, and the signals from it on are all counted
\* as skipped.
C9_FailFast ==
  lastOp.op = "executePaperTrades" =>
    \A k \in 1..Len(lastOp.log) :
      lastOp.log[k].available <= 0 =>
        /\ k = Len(lastOp.log)
        /\ lastOp.log[k].outcome = "break"
        /\ Len(trades) = lastOp.log[k].trades
        /\ lastOp.ret.status = "ok"
        /\ lastOp.ret.opened = Cardinality({j \in 1..(k - 1) :
                                              lastOp.log[j].outcome = "opened"})
        /\ lastOp.ret.skipped = lastOp.n - lastOp.ret.opened

\* a batch of two signals found no capital at its first signal: both are
\* counted as skipped and the second was never looked at
C9_Witness ==
  /\ lastOp.op = "executePaperTrades"
  /\ lastOp.n = 2
  /\ Len(lastOp.log) = 1
  /\ lastOp.log[1].available <= 0
  /\ lastOp.ret.skipped = 2

\* the trades a step adds to the ledger
AddedIds == (Len(trades) + 1)..Len(trades')

\* C10 as stated: a step of openTrade or executePaperTrades, called
\* directly or by the model cycle, adds a trade only for a market whose
\* status is active.
C10_Original ==
  [][\A i \in AddedIds : markets[trades'[i].ticker].status = "active"]_vars

\* C10 (amended): a model cycle, which trades on the signals of
\* detectMispricings, adds a trade only for a market whose status is
\* active; openTrade and executePaperTrades themselves do not look at the
\* market's status.
C10_CycleTradesActiveOnly ==
  [][lastOp'.op = "modelCycle" =>
       \A i \in AddedIds : markets[trades'[i].ticker].status = "active"]_vars

\* a model cycle opened a trade while a market that is not active had an
\* estimate and got no trade
C10_Witness ==
  /\ lastOp.op = "modelCycle"
  /\ lastOp.ret.opened >= 1
  /\ \E k \in 1..Len(estimates) :
       /\ markets[estimates[k].ticker].status # "active"
       /\ \A i \in Ids : trades[i].ticker # estimates[k].ticker

\* the list the last detectMispricings or getTopSignals call returned
Signals == lastOp.log

\* the estimates of ticker t by model mn with the greatest timestamp
LatestOf(t, mn) ==
  LET mine == {k \in 1..Len(estimates) : /\ estimates[k].ticker = t
                                         /\ estimates[k].model_name = mn}
  IN  {k \in mine : \A j \in mine : estimates[j].timestamp
                                      <= estimates[k].timestamp}

Round3(x) == ((x + 5) \div 10) * 10

Detections ==
  {detectMispricings(markets, estimates, mo, eo, MinEdgePct, MinConfidence,
                     CoinFlipMin, CoinFlipMax) :
     mo \in Orders(Tickers), eo \in Orders(1..Len(estimates))}

\* C14: the list detectMispricings returns has no signal followed by one
\* with a strictly higher score, and getTopSignals returns the first
\* min(limit, length) signals of such a list, in the same order.
C14_SortedAndTop ==
  /\ lastOp.op = "detectMispricings" =>
       \A i, j \in 1..Len(Signals) : i < j => Signals[i].score >= Signals[j].score
  /\ lastOp.op = "getTopSignals" =>
       \E all \in Detections :
         /\ Len(Signals) = (IF lastOp.n < Len(all) THEN lastOp.n ELSE Len(all))
         /\ \A i \in 1..Len(Signals) : Signals[i] = all[i]
         /\ \A i, j \in 1..Len(all) : i < j => all[i].score >= all[j].score

\* getTopSignals with limit 1 returned the better of two signals with
\* different scores
C14_Witness ==
  /\ lastOp.op = "getTopSignals"
  /\ lastOp.n = 1
  /\ Len(Signals) = 1
  /\ \E all \in Detections : /\ Len(all) = 2
                             /\ all[1].score > all[2].score


\* the arguments and the result of the sizer's last call
Args == lastOp.args
Ret == lastOp.ret

\* C15: kellyFraction(p, price) is 0 whenever price or p is not strictly
\* between 0 and 1; otherwise it is (p*b - (1 - p)) / b with
\* b = (1 - price) / price, that is (p - price) / (1 - price), which is
\* negative when p < price; kellyFraction(0.55, 0.40) is 0.25.
C15_KellyFormula ==
  lastOp.op = "kellyFraction" =>
    LET p == Args.modelProb
        price == Args.entryPrice
    IN  IF price <= 0 \/ price >= Scale \/ p <= 0 \/ p >= Scale
        THEN Ret = <<0, 1>>
        ELSE LET b == Q(Scale - price, price)
             IN  /\ Ret = QDiv(QSub(QMul(Q(p, Scale), b), Q(Scale - p, Scale)), b)
                 /\ Ret = Q(p - price, Scale - price)
                 /\ (p < price => Ret[1] < 0 /\ Ret[2] > 0)
                 /\ (p = 5500 /\ price = 4000 => Ret = <<1, 4>>)

C15_Witness ==
  /\ lastOp.op = "kellyFraction"
  /\ Args.modelProb = 5500 /\ Args.entryPrice = 4000
  /\ Ret = <<1, 4>>


\* C16, as stated: for every input sizePosition returns a non-negative
\* integer contract count and costBasis == contracts * entryPrice exactly,
\* and the row openTrade writes keeps cost_basis == contracts * entry_price.
C16_Original ==
  /\ lastOp.op = "sizePosition" =>
       /\ Ret.contracts \in Nat
       /\ Ret.costBasis = Ret.contracts * Args.entryPrice
  /\ lastOp.op = "sizeFromSignal" /\ Ret.contracts > 0 =>
       LET row == tradeRow(Args.signal, Ret)
       IN  row.cost_basis = row.contracts * row.entry_price

\* C16: sizePosition returns a non-negative integer contract count and
\* costBasis == contracts * entryPrice rounded to the cent, which is
\* contracts * entryPrice itself when entryPrice is a whole number of cents.
\* The row openTrade writes holds the side's price rounded to the cent and
\* the cost basis of the unrounded price rounded to the cent; it keeps
\* cost_basis == contracts * entry_price when the signal's market price is a
\* whole number of cents.
C16_CostBasisRounded ==
  /\ lastOp.op = "sizePosition" =>
       /\ Ret.contracts \in Nat
       /\ Ret.costBasis = RoundCents(Ret.contracts * Args.entryPrice)
       /\ (Args.entryPrice % 100 = 0 =>
             Ret.costBasis = Ret.contracts * Args.entryPrice)
  /\ lastOp.op = "sizeFromSignal" /\ Ret.contracts > 0 =>
       LET row == tradeRow(Args.signal, Ret)
           price == IF Args.signal.side = "yes" THEN Args.signal.marketPrice
                    ELSE Scale - Args.signal.marketPrice
       IN  /\ row.contracts \in Nat
           /\ row.entry_price = RoundCents(price)
           /\ row.cost_basis = RoundCents(row.contracts * price)
           /\ (Args.signal.marketPrice % 100 = 0 =>
                 row.cost_basis = row.contracts * row.entry_price)

\* three contracts at 0.333 cost 0.999 and are reported, and written, as
\* 1.00 beside an entry price of 0.33
C16_Witness ==
  /\ lastOp.op = "sizeFromSignal"
  /\ Args.signal.side = "yes" /\ Args.signal.marketPrice = 3330
  /\ Ret.contracts = 3 /\ Ret.costBasis = 10000
  /\ tradeRow(Args.signal, Ret).entry_price = 3300
  /\ tradeRow(Args.signal, Ret).cost_basis = 10000


\* the cap of a sizePosition call in dollars: bankroll * maxPositionPct / 100
Cap == QMul(FromFixed(Args.bankroll), Q(Args.maxPositionPct, 100))

\* kellyFull * kellyMultiplier capped at maxPositionPct / 100
CappedFraction ==
  LET kellyAdjusted == QMul(kellyFraction(Args.modelProb, Args.entryPrice),
                            Args.kellyMultiplier)
      maxFraction == Q(Args.maxPositionPct, 100)
  IN  IF QLe(kellyAdjusted, maxFraction) THEN kellyAdjusted ELSE maxFraction

\* floor(bankroll * fraction / price)
StakeContracts ==
  QFloor(QDiv(QMul(FromFixed(Args.bankroll), CappedFraction),
              FromFixed(Args.entryPrice)))

PositiveKelly ==
  /\ lastOp.op = "sizePosition"
  /\ QLt(QInt(0), kellyFraction(Args.modelProb, Args.entryPrice))

C18_SideFlip ==
  lastOp.op = "sizeFromSignal" =>
    LET signal == Args.signal
        entryPrice == IF signal.side = "no" THEN Scale - signal.marketPrice
                      ELSE signal.marketPrice
        modelProb == IF signal.side = "no" THEN Scale - signal.modelProb
                     ELSE signal.modelProb
    IN  \A sizing \in {sizePosition(modelProb, entryPrice, Args.bankroll,
                                    Args.kellyMultiplier, Args.maxPositionPct)} :
          /\ Ret.contracts = sizing.contracts
          /\ Ret.costBasis = sizing.costBasis
          /\ Ret.kellyFull = sizing.kellyFull
          /\ Ret.kellyAdjusted = sizing.kellyAdjusted
          /\ Ret.fraction = sizing.fraction
          /\ Ret.side = signal.side

\* a 'no' signal at a market price of 0.60 against a model probability of
\* 0.35: one contract of NO costs 0.40 and wins with probability 0.65
C18_Witness ==
  /\ lastOp.op = "sizeFromSignal"
  /\ Args.signal.side = "no"
  /\ Args.signal.marketPrice = 6000 /\ Args.signal.modelProb = 3500
  /\ Args.bankroll = 200000 /\ Args.maxPositionPct = 5
  /\ Ret.side = "no"
  /\ Ret.contracts = 2 /\ Ret.costBasis = 8000
  /\ Ret.kellyFull = RoundTo(kellyFraction(6500, 4000), 10000)


\* C19: closeTrade on an open trade sets revenue = contracts * exitPrice,
\* profit = revenue - cost basis and profit percent = profit / cost basis
\* * 100, or 0 when the cost basis is 0, and moves the trade to sold; no
\* other trade changes.  Every sold trade of the ledger carries these
\* values.
C19_CloseTrade ==
  /\ \A id \in Ids, exitPrice \in ExitPrices :
       IsOpen(id) =>
         \A r \in {closeTrade(trades, id, exitPrice)} :
           /\ r.ret.status = "ok"
           /\ Len(r.db) = Len(trades)
           /\ r.db[id].resolution = "sold"
           /\ r.db[id].exit_price = Some(exitPrice)
           /\ r.db[id].revenue = Some(trades[id].contracts * exitPrice)
           /\ r.db[id].profit =
                Some(trades[id].contracts * exitPrice - trades[id].cost_basis)
           /\ r.db[id].profit_pct =
                Some(IF trades[id].cost_basis = 0 THEN <<0, 1>>
                     ELSE QMul(Q(trades[id].contracts * exitPrice
                                   - trades[id].cost_basis,
                                 trades[id].cost_basis), QInt(100)))
           /\ r.db[id].contracts = trades[id].contracts
           /\ r.db[id].cost_basis = trades[id].cost_basis
           /\ \A j \in Ids \ {id} : r.db[j] = trades[j]
  /\ \A id \in Ids :
       trades[id].resolution = "sold" =>
         /\ trades[id].revenue =
              Some(trades[id].contracts * trades[id].exit_price[1])
         /\ trades[id].profit =
              Some(trades[id].revenue[1] - trades[id].cost_basis)
         /\ trades[id].profit_pct =
              Some(IF trades[id].cost_basis = 0 THEN <<0, 1>>
                   ELSE QMul(Q(trades[id].profit[1], trades[id].cost_basis),
                             QInt(100)))

\* closeTrade has just sold a trade of four contracts whose cost basis is 0
\* at a profit, beside another trade that is still open
C19_Witness ==
  /\ lastOp.op = "closeTrade" /\ lastOp.ret.status = "ok"
  /\ lastOp.n \in Ids
  /\ trades[lastOp.n].resolution = "sold"
  /\ trades[lastOp.n].cost_basis = 0 /\ trades[lastOp.n].contracts = 4
  /\ trades[lastOp.n].profit[1] > 0
  /\ trades[lastOp.n].profit_pct = Some(<<0, 1>>)
  /\ \E j \in Ids \ {lastOp.n} : IsOpen(j)


\* sizePosition as sizeFromSignal calls it for a signal
SignalSizing(signal, bankroll, a) ==
  sizePosition(IF signal.side = "yes" THEN signal.modelProb
               ELSE Scale - signal.modelProb,
               IF signal.side = "yes" THEN signal.marketPrice
               ELSE Scale - signal.marketPrice,
               bankroll, a.kellyMultiplier, a.maxPositionPct)

\* openTrade turns the signal down and leaves the ledger as it is
TurnedDown(signal, bankroll, a) ==
  \A r \in {openTrade(trades, markets, signal, bankroll, a.kellyMultiplier,
                      a.maxPositionPct)} :
    r.ret = RetNull /\ r.db = trades

\* executePaperTrades on the one signal opens nothing and skips it
SkippedAlone(signal, a) ==
  \A r \in {executePaperTrades(trades, markets, <<signal>>, a.bankroll,
                               a.kellyMultiplier, a.maxPositionPct)} :
    /\ r.ret.status = "ok"
    /\ r.ret.opened = 0 /\ r.ret.skipped = 1
    /\ r.db = trades

\* C20: when sizing a signal gives 0 contracts, sizePosition returns
\* contracts 0 and costBasis 0 (full Kelly is not positive, or the capped
\* stake buys less than one contract), openTrade returns null, does not
\* throw and adds no trade, and executePaperTrades counts the signal as
\* skipped.
C20_ZeroContracts ==
  \A signal \in BookSignals \cup {PennySignal}, a \in BookAccounts :
    /\ \A sizing \in {SignalSizing(signal, a.bankroll, a)} :
         sizing.contracts = 0 =>
           /\ sizing.costBasis = 0
           /\ \/ QLe(sizing.kellyFull, QInt(0))
              \/ QLt(QMul(FromFixed(a.bankroll), sizing.fraction),
                     FromFixed(sideEntryPrice(signal)))
           /\ TurnedDown(signal, a.bankroll, a)
    /\ \A available \in {calculateBankroll(trades, a.bankroll).available} :
         SignalSizing(signal, available, a).contracts = 0 =>
           /\ TurnedDown(signal, available, a)
           /\ SkippedAlone(signal, a)

\* on an empty ledger a batch has just skipped a signal for a market at 0.40
\* that 5% of $0.08 cannot buy, and one that the model is certain of
C20_Witness ==
  /\ lastOp.op = "executePaperTrades"
  /\ trades = <<>>
  /\ lastOp.ret.opened = 0 /\ lastOp.ret.skipped = 2
  /\ Len(lastOp.log) = 2
  /\ lastOp.log[1].outcome = "skipped" /\ lastOp.log[1].ticker = "T1"
  /\ lastOp.log[1].available = 800
  /\ lastOp.log[2].outcome = "skipped" /\ lastOp.log[2].ticker = "T2"
  /\ SignalSizing(BookSignal("T2", 4000, Scale, "yes"), 800, SmallAccount).kellyFull
       = <<0, 1>>


\* the rows of a table that are not older than the cutoff, in order
RECURSIVE Kept(_, _)
Kept(rows, cutoff) ==
  IF rows = <<>> THEN <<>>
  ELSE IF Head(rows).timestamp >= cutoff
  THEN <<Head(rows)>> \o Kept(Tail(rows), cutoff)
  ELSE Kept(Tail(rows), cutoff)

\* C21: no operation removes a trade: the number of trades never decreases
\* and every trade keeps its id, ticker, side, contracts and cost basis;
\* pruneOldData removes exactly the price snapshots and model estimates
\* older than the cutoff and leaves trades and markets as they are.
C21_TradesNeverDeleted ==
  [][/\ Len(trades') >= Len(trades)
     /\ \A i \in 1..Len(trades) :
          /\ trades'[i].ticker = trades[i].ticker
          /\ trades'[i].side = trades[i].side
          /\ trades'[i].contracts = trades[i].contracts
          /\ trades'[i].cost_basis = trades[i].cost_basis
     /\ (lastOp'.op = "pruneOldData" /\ lastOp' # lastOp =>
           /\ trades' = trades
           /\ markets' = markets
           /\ snapshots' = Kept(snapshots, lastOp'.n)
           /\ estimates' = Kept(estimates, lastOp'.n))]_vars

\* pruneOldData has just deleted a snapshot and an estimate, kept a snapshot
\* that sits on the cutoff, and the ledger holds an open and a closed trade
C21_Witness ==
  /\ lastOp.op = "pruneOldData"
  /\ lastOp.log = <<1, 1>>
  /\ Len(snapshots) = 1 /\ snapshots[1].timestamp = lastOp.n
  /\ Len(trades) = 2
  /\ \E i, j \in Ids : IsOpen(i) /\ IsTerminal(j)


\* the snapshots of a ticker that report an open interest, by id
InterestIds(t) ==
  {i \in 1..Len(snapshots) :
     snapshots[i].ticker = t /\ snapshots[i].open_interest # None}

\* the open interest the newest such snapshot reports
LatestInterest(t) ==
  LET i == CHOOSE j \in InterestIds(t) : \A k \in InterestIds(t) : k <= j
  IN  snapshots[i].open_interest[1]

\* C22: detectMispricings emits a signal only for a market whose open
\* interest, where it is on record, is above the minLiquidity option.
C22_LiquidityFilter ==
  lastOp.op = "detectMispricings" =>
    \A k \in 1..Len(lastOp.log) :
      InterestIds(lastOp.log[k].ticker) # {} =>
        LatestInterest(lastOp.log[k].ticker) > lastOp.n


\* the cost bases of the open trades among the first k rows of db, added up
RECURSIVE OpenCostOf(_, _)
OpenCostOf(db, k) ==
  IF k = 0 THEN 0
  ELSE (IF db[k].resolution = "open" THEN db[k].cost_basis ELSE 0)
         + OpenCostOf(db, k - 1)

\* the profits of the win, loss and sold trades among the first k rows of db
RECURSIVE ProfitOf(_, _)
ProfitOf(db, k) ==
  IF k = 0 THEN 0
  ELSE (IF db[k].profit # None THEN db[k].profit[1] ELSE 0) + ProfitOf(db, k - 1)

\* what a batch on the present ledger does
Batch(signals, a) ==
  executePaperTrades(trades, markets, signals, a.bankroll, a.kellyMultiplier,
                     a.maxPositionPct)

Failed(c) == timers[c].pc = "idle" /\ timers[c].outcome = "error"

\* this step takes cycle c from under way into its catch
Fails(c) ==
  /\ timers[c].pc # "idle"
  /\ timers'[c].pc = "idle" /\ timers'[c].outcome = "error"

\* C24: an error thrown in a poll cycle or a model cycle is caught inside
\* that cycle: main and its timers stay as they are and so does the other
\* cycle, the steps of the failed cycle that come after the failing one
\* are not run, and the failed cycle is called again later, as is the other
\* cycle.
C24_CycleErrorsCaught ==
  /\ [][/\ (timers.main = "running" => timers'.main = "running")
        /\ (Fails("poll") =>
              /\ timers'.main = timers.main /\ timers'.model = timers.model
              /\ markets' = markets /\ estimates' = estimates
              /\ (lastOp'.log[1] \in {"ingest", "snapshot"} =>
                    snapshots' = snapshots /\ trades' = trades)
              /\ (lastOp'.log[1] = "resolve" => trades' = trades))
        /\ (Fails("model") =>
              /\ timers'.main = timers.main /\ timers'.poll = timers.poll
              /\ markets' = markets /\ snapshots' = snapshots
              /\ estimates' = estimates
              /\ (lastOp'.log[1] \in {"run", "detect"} => trades' = trades))]_vars
  /\ (Failed("poll") ~> timers.poll.pc = "ingest")
  /\ (Failed("model") ~> timers.model.pc = "run")
  /\ (Failed("poll") ~> timers.model.pc = "run")
  /\ (Failed("model") ~> timers.poll.pc = "ingest")

\* the timers are set and the poll cycle, whose last run ended in its catch,
\* is under way again, beside a model cycle whose last run failed too
C24_Witness ==
  /\ timers.main = "running"
  /\ timers.poll.pc = "ingest" /\ timers.poll.outcome = "error"
  /\ timers.model.outcome = "error"
  /\ lastOp.op = "pollCycle" /\ lastOp.log = <<"start">>


\* the ids of the open trades of one ticker
OpenIdsOf(t) == {i \in Ids : trades[i].ticker = t /\ IsOpen(i)}

\* the ledger after steps 2 and 3 of a model cycle with no failure
TradedLedgers ==
  {modelTrade(trades, markets, estimates, mo, eo, config, "none").db :
     mo \in Orders(Tickers), eo \in Orders(1..Len(estimates))}

\* C27: the poll cycle and the model cycle overlap at their awaits only: a
\* step that writes the ledger is one whole pass of resolveSettledTrades in
\* a poll cycle or one whole detectMispricings-then-executePaperTrades in a
\* model cycle, taken while the other cycle rests where it is, and under
\* every interleaving each ticker has at most one open trade.
C27_LedgerStepsWhole ==
  /\ [](\A t \in Tickers : Cardinality(OpenIdsOf(t)) <= 1)
  /\ [][trades' # trades =>
          \/ /\ timers.poll.pc = "ledger" /\ timers'.poll.pc = "idle"
             /\ timers'.model = timers.model
             /\ trades' = resolveSettledTrades(trades, markets).db
          \/ /\ timers.model.pc = "trade" /\ timers'.model.pc = "idle"
             /\ timers'.poll = timers.poll
             /\ trades' \in TradedLedgers]_vars

\* the timers are set, the poll cycle is past its await and before its
\* ledger steps, and meanwhile a model cycle has run its ledger steps and
\* opened a trade on a ticker that has a finished trade already
C27_Witness ==
  /\ timers.main = "running"
  /\ timers.poll.pc = "ledger"
  /\ lastOp.op = "modelCycle" /\ lastOp.log = <<"none">>
  /\ \E i, j \in Ids : /\ i < j /\ trades[i].ticker = trades[j].ticker
                       /\ IsTerminal(i) /\ IsOpen(j)


\* C25: fetchWithRetry issues a request again only after a 429 and at most
\* maxRetries times, so at most maxRetries + 1 fetches, and waits
\* retryDelayMs * 2^attempt before each retry; a response other than 429 is
\* returned with no retry, and a 429 on the last attempt is returned to the
\* caller, which throws the error 'Kalshi API error 429'.
C25_RetryOn429Only ==
  client.pc # "idle" =>
    /\ Len(client.statuses) <= client.maxRetries + 1
    /\ Len(client.waits) <= client.maxRetries
    /\ \A i \in 1..Len(client.waits) :
         /\ client.statuses[i] = 429
         /\ client.waits[i] = client.retryDelayMs * Pow2(i - 1)
    /\ \A i \in 1..Len(client.statuses) :
         \/ i = Len(client.statuses) /\ client.pc \notin {"fetch", "wait"}
         \/ i <= Len(client.waits)
    /\ client.pc \in {"fetch", "wait"} =>
         /\ client.attempt <= client.maxRetries
         /\ Len(client.statuses) =
              client.attempt + (IF client.pc = "wait" THEN 1 ELSE 0)
         /\ Len(client.waits) = Len(client.statuses)
    /\ client.returned # None =>
         /\ client.returned = Some(client.statuses[Len(client.statuses)])
         /\ Len(client.waits) = Len(client.statuses) - 1
         /\ client.returned = Some(429) =>
              /\ Len(client.statuses) = client.maxRetries + 1
              /\ client.pc = "thrown"
              /\ client.error = Some(<<"Kalshi API error", 429>>)
         /\ client.returned \notin {Some(429), Some(200)} =>
              /\ client.pc = "thrown"
              /\ client.error = Some(<<"Kalshi API error", client.returned[1]>>)

\* the default client has tried four times, after waits of 2, 4 and 8
\* seconds, and the fourth 429 has become the caller's error
C25_Witness ==
  /\ client.maxRetries = MaxRetries
  /\ client.statuses = <<429, 429, 429, 429>>
  /\ client.waits = <<2000, 4000, 8000>>
  /\ client.error = Some(<<"Kalshi API error", 429>>)


\* available capital of the account on ledger db
Available(db) == calculateBankroll(db, config.bankroll).available

FinishedOnly(t) ==
  /\ \E i \in Ids : trades[i].ticker = t /\ IsTerminal(i)
  /\ \A i \in Ids : trades[i].ticker = t => ~IsOpen(i)

\* C28: the duplicate guard of openTrade looks at open trades only: once the
\* trades of a ticker are sold, won or lost, a later openTrade whose sizing
\* is positive adds a new open trade, also when the market has a result
\* already, and the next resolveSettledTrades resolves that new trade too.
C28_ReopenAfterFinish ==
  \A signal \in DirectSignals, a \in Accounts :
    (/\ FinishedOnly(signal.ticker)
     /\ markets[signal.ticker].present
     /\ sizeFromSignal(signal, a.bankroll, a.kellyMultiplier,
                       a.maxPositionPct).contracts > 0) =>
      \A r \in {openTrade(trades, markets, signal, a.bankroll,
                          a.kellyMultiplier, a.maxPositionPct)} :
        /\ r.ret # RetNull
        /\ Len(r.db) = Len(trades) + 1
        /\ SubSeq(r.db, 1, Len(trades)) = trades
        /\ r.db[Len(r.db)].ticker = signal.ticker
        /\ r.db[Len(r.db)].resolution = "open"
        /\ HasResult(signal.ticker) =>
             \A s \in {resolveSettledTrades(r.db, markets).db} :
               /\ s[Len(s)].resolution =
                    IF s[Len(s)].side = markets[signal.ticker].result
                    THEN "win" ELSE "loss"
               /\ SubSeq(s, 1, Len(trades)) = trades

\* a ticker whose first trade was resolved and whose second trade, opened
\* after that on the settled market, has just been resolved as well
C28_Witness ==
  /\ lastOp.op = "resolveSettledTrades"
  /\ \E i, j \in Ids : /\ i < j /\ trades[i].ticker = trades[j].ticker
                       /\ trades[i].resolution \in {"win", "loss"}
                       /\ trades[j].resolution \in {"win", "loss"}
                       /\ HasResult(trades[j].ticker)


\* C29: resolveSettledTrades writes the updates of one pass in a single
\* transaction: when every update succeeds all the selected trades are
\* resolved together, and when any update throws, every trade selected in
\* that pass is left open and unchanged.
C29_ResolveAllOrNothing ==
  /\ \A s \in {resolveSettledTrades(trades, markets).db} :
       \A i \in SettledOpenIds(trades, markets) :
         s[i].resolution \in {"win", "loss"}
  /\ \A failAt \in 1..Cardinality(SettledOpenIds(trades, markets)) :
       resolveThrows(trades, markets, failAt) = trades
  /\ (lastOp.op = "resolveSettledTrades" /\ lastOp.ret = RetThrows) =>
       /\ lastOp.log[1] = SettledOpenIds(trades, markets)
       /\ \A i \in lastOp.log[1] : IsOpen(i) /\ trades[i].profit = None

\* the second UPDATE of a pass over two settled trades has thrown: both are
\* open still, the first one too
C29_Witness ==
  /\ lastOp.op = "resolveSettledTrades" /\ lastOp.ret = RetThrows
  /\ lastOp.n = 2 /\ lastOp.log = <<{1, 2}>>
  /\ IsOpen(1) /\ IsOpen(2)


\* the full Kelly fraction sizeFromSignal computes for the side of signal,
\* before sizePosition rounds the figure it returns
SideKelly(signal) ==
  kellyFraction(sideModelProb(signal), sideEntryPrice(signal))

\* the side detectMispricings gives a signal
DetectorSide(signal) ==
  IF signal.modelProb > signal.marketPrice THEN "yes" ELSE "no"

\* market T1 listed and open
Listed == [markets EXCEPT !["T1"] = upsertRow(NoMarket, ApiMarket("T1", "open", ""))]

\* C30: for a signal whose market price and model probability are both
\* strictly between 0 and 1, the full Kelly fraction sizeFromSignal computes
\* for the signal's side is positive exactly when the model is on that side
\* of the price (yes: modelProb > price; no: modelProb < price), which for
\* the side the detector gives means exactly when the edge is not zero; a
\* signal whose model probability is exactly 0 or 1 gets full Kelly 0 and
\* is never opened as a trade, whatever its edge.
C30_KellySign ==
  lastOp.op = "sizeFromSignal" =>
    \A signal \in {lastOp.args.signal} :
      /\ (/\ signal.marketPrice > 0 /\ signal.marketPrice < Scale
          /\ signal.modelProb > 0 /\ signal.modelProb < Scale) =>
           /\ ~QLe(SideKelly(signal), QInt(0)) <=>
                \/ signal.side = "yes" /\ signal.modelProb > signal.marketPrice
                \/ signal.side = "no" /\ signal.modelProb < signal.marketPrice
           /\ signal.side = DetectorSide(signal) =>
                (~QLe(SideKelly(signal), QInt(0)) <=>
                   signal.modelProb # signal.marketPrice)
           /\ QLe(SideKelly(signal), QInt(0)) =>
                /\ lastOp.ret.contracts = 0
                /\ lastOp.ret.kellyFull = SideKelly(signal)
      /\ signal.modelProb \in {0, Scale} =>
           /\ SideKelly(signal) = QInt(0)
           /\ lastOp.ret.kellyFull = QInt(0)
           /\ lastOp.ret.contracts = 0
           /\ openTrade(trades, Listed, signal, lastOp.args.bankroll,
                        lastOp.args.kellyMultiplier,
                        lastOp.args.maxPositionPct)
                = [ret |-> RetNull, db |-> trades]

\* a no signal on a market at 0.40 that the model puts at 0.35 has been
\* sized: its full Kelly fraction is positive and contracts are bought
C30_Witness ==
  /\ lastOp.op = "sizeFromSignal"
  /\ lastOp.args.signal.side = "no"
  /\ lastOp.args.signal.marketPrice = 4000
  /\ lastOp.args.signal.modelProb = 3500
  /\ ~QLe(SideKelly(lastOp.args.signal), QInt(0))
  /\ lastOp.ret.contracts > 0

=============================================================================
